---- MODULE Spec2Model ----
(***************************************************************************)
(* A model of the marketplace pipeline of vscode-agent-plugins.            *)
(*                                                                         *)
(*   Spec         the stale-while-revalidate cache (features/cache.ts):    *)
(*                one MarketplaceCache instance, its callers, the          *)
(*                fetchers they pass in, the clock and the persisted       *)
(*                snapshot in the extension's global state.                *)
(*   SpecResolve  one fetchMarketplace(sourceUrl) call                     *)
(*                (features/marketplace.ts): candidate generation, the     *)
(*                sequential probe loop, the normalization of the          *)
(*                document and the construction of the result.             *)
(*   SpecWire     the GET requests the program sends and the               *)
(*                authorization they carry (authenticatedFetch,            *)
(*                features/github-auth.ts).                                *)
(*   SpecAll      one fetchAllMarketplaces(urls) call: the concurrent      *)
(*                fetchMarketplace calls and the merge of their results.   *)
(*   SpecExported the exported fetch operations, one call at a time:       *)
(*                fetchMarketplace, fetchAllMarketplaces,                  *)
(*                fetchGroupItemDescription, fetchGroupItemContent.        *)
(*   SpecHydrate  one fetchMarketplace call on manifests whose plugins     *)
(*                carry content categories: the extraction of the groups   *)
(*                and the hydration of the plugins without groups from     *)
(*                sub-manifests and directory listings.                    *)
(*   SpecInstall  executeInstall, called once and once again: the          *)
(*                concurrent installs of the items, the files they write   *)
(*                and the workspace settings.                              *)
(*   SpecTree     the marketplace tree view: the provider's loadData, the   *)
(*                setting it reads, the commands and events that call it   *)
(*                and the view asking for the root nodes.                  *)
(*                                                                         *)
(* JavaScript runs the code between two awaits atomically, so every        *)
(* action below is one such run: a call up to its first suspension point   *)
(* or its return, or the continuation of a settled promise.                *)
(***************************************************************************)
EXTENDS Integers, Sequences, FiniteSets, TLC

VARIABLES
    \* ---- cache.ts ----
    now,               \* Date.now(), in clock ticks
    memoryCache,       \* Map<string, CacheEntry>: a function on the keys present
    pendingRefreshes,  \* Map<string, Promise>: key -> id of the refresh's fetch
    globalState,       \* the Memento slot 'marketplaceCache'
    fetches,           \* fetcher promises not yet consumed: id -> task
    invoked,           \* number of fetcher invocations so far
    last,              \* the call or continuation that produced this state
    \* ---- marketplace.ts: one fetchMarketplace call ----
    pc,                \* where the call is
    sourceUrl,         \* its argument
    candidates,        \* candidateMarketplaceUrls(sourceUrl), once computed
    cursor,            \* index of the candidate the for-loop is at
    issued,            \* the candidates a probe GET was issued for, in order
    answers,           \* how the issued probes were answered, in order
    warnings,          \* resolveMarketplaceUrl's local warnings array
    resolution,        \* what resolveMarketplaceUrl returned
    result,            \* what fetchMarketplace returned
    documentAnswer,    \* how the GET of the resolved document was answered
    json,              \* fetchMarketplace's local json: the decoded body
    normalized,        \* fetchMarketplace's local normalized
    hydration,         \* how the hydration loop ended
    hydratedPlugins,   \* fetchMarketplace's local hydratedPlugins
    walk,              \* where hydratePluginGroupsFromSource is, and its locals
    hydrationRequests, \* the GETs hydration issued, in order
    hydrationAnswers,  \* how the answered GETs were answered, in order
    \* ---- github-auth.ts and the requests sent ----
    network,           \* the GET requests that have reached the network
    cachedSession,     \* github-auth.ts: whether cachedSession holds a session
    \* ---- marketplace.ts: one fetchAllMarketplaces call ----
    allPc,             \* where the call is
    urls,              \* its argument
    pipelines,         \* the promises of urls.map(url => fetchMarketplace(url))
    settledOrder,      \* the indexes of the settled promises, in settling order
    aggregate,         \* what fetchAllMarketplaces returned
    \* ---- marketplace.ts: one fetchGroupItemDescription / -Content call ----
    itemPc,            \* where the call is
    itemOp,            \* which of the two functions was called
    itemUrls,          \* its local urls
    itemCursor,        \* index of the URL the for-loop is at
    itemRequested,     \* the URLs a GET was issued for, in order
    itemAnswers,       \* how those GETs were answered, in order
    itemResult,        \* what the call returned
    \* ---- the installer: executeInstall calls ----
    host,              \* what the code runs against: the remote repositories,
                       \* whether a workspace folder is open, whether the
                       \* target root can be written
    installPc,         \* where the executeInstall call is
    installs,          \* number of executeInstall calls so far
    installPayload,    \* the scope, target path and plugins of the call
    tasks,             \* the promises of installSkillItem / installAgentItem
    files,             \* the files on disk: path -> content
    dirs,              \* the directories created on disk
    settings,          \* chat.agentSkillsLocations and chat.agentFilesLocations
                       \* of the workspace
    lastOperation,     \* the lastOperation.* slots of the extension's state
    installResult,     \* what executeInstall returned
    firstRun,          \* disk and settings when the second call started
    \* ---- the tree view: MarketplaceTreeDataProvider and its triggers ----
    marketplaceUrls,   \* what getMarketplaceUrls() returns: the setting
    loading,           \* this._loading
    loadUrls,          \* the local urls of the load in progress
    marketplaces,      \* this._marketplaces
    viewDirty,         \* onDidChangeTreeData fired and the view has not asked
                       \* for the root since
    shown,             \* the root nodes the view was last given
    treeLast           \* the trigger or continuation that ran last

cacheVars == <<now, memoryCache, pendingRefreshes, globalState, fetches, invoked, last>>
resolveVars == <<pc, sourceUrl, candidates, cursor, issued, answers, warnings,
                 resolution, result, documentAnswer, json, normalized,
                 hydration, hydratedPlugins, walk, hydrationRequests,
                 hydrationAnswers>>
hydrateVars == <<hydratedPlugins, walk, hydrationRequests, hydrationAnswers>>
wireVars == <<network, cachedSession>>
allVars == <<allPc, urls, pipelines, settledOrder, aggregate>>
itemVars == <<itemPc, itemOp, itemUrls, itemCursor, itemRequested, itemAnswers,
              itemResult>>
installVars == <<host, installPc, installs, installPayload, tasks, files, dirs, settings,
                 lastOperation, installResult, firstRun>>
treeVars == <<marketplaceUrls, loading, loadUrls, marketplaces, viewDirty, shown, treeLast>>
vars == <<cacheVars, resolveVars, wireVars, allVars, itemVars, installVars, treeVars>>

\* What the steps of one part of the program leave alone.
notCacheVars == <<resolveVars, wireVars, allVars, itemVars, installVars, treeVars>>
notResolveVars == <<cacheVars, wireVars, allVars, itemVars, installVars, treeVars>>
notWireVars == <<cacheVars, resolveVars, allVars, itemVars, installVars, treeVars>>
notAllVars == <<cacheVars, resolveVars, wireVars, itemVars, installVars, treeVars>>
notItemVars == <<cacheVars, resolveVars, wireVars, allVars, installVars, treeVars>>
notInstallVars == <<cacheVars, resolveVars, wireVars, allVars, itemVars, treeVars>>
notTreeVars == <<resolveVars, wireVars, allVars, itemVars, installVars>>

(***************************************************************************)
(* Bounds of the model.                                                    *)
(***************************************************************************)
\* The cache is constructed with config {freshTTL: FreshTTL, staleTTL: StaleTTL},
\* in clock ticks (the constructor's config parameter; FreshTTL < StaleTTL).
FreshTTL == 1
StaleTTL == 2
\* The clock stops at MaxTime, the callers invoke at most MaxFetches fetchers.
MaxTime == 3
MaxFetches == 2
\* At most MaxRequests different requests are sent.
MaxRequests == 2
\* At most MaxUrls marketplace URLs are configured.
MaxUrls == 2
Keys == {"k1", "k2"}
RefreshKeys == {"k1"}
\* The payloads a fetcher or a caller may supply.
Data == {"d1", "d2"}
NoData == ""
Undefined == "undefined"
Etags == {Undefined, "W1"}

(***************************************************************************)
(* Small helpers for JavaScript's Map.                                     *)
(***************************************************************************)
MapSet(m, k, v) == [x \in (DOMAIN m) \cup {k} |-> IF x = k THEN v ELSE m[x]]
MapDelete(m, k) == [x \in (DOMAIN m) \ {k} |-> m[x]]
EmptyMap == [x \in {} |-> 0]

\* The record of a step: which call or continuation ran (op, key, force), whether a
\* call returned to its caller in this step and with what, and which fetch
\* the step started or consumed (0: none), whether get evicted the entry, and
\* how the promise behind a finally callback had settled.
NoLast == [op |-> "none", key |-> "", force |-> FALSE, returned |-> FALSE,
           found |-> FALSE, data |-> NoData, isFresh |-> FALSE, fromCache |-> FALSE,
           refreshing |-> FALSE, threw |-> FALSE, fetch |-> 0, kind |-> "",
           evicted |-> FALSE, outcome |-> ""]

(***************************************************************************)
(* cache.ts: MarketplaceCache                                              *)
(***************************************************************************)
\* entry.etag: undefined when the entry has no such property.
EntryEtag(e) == IF "etag" \in DOMAIN e THEN e.etag ELSE Undefined

\* JSON.stringify of a CacheEntry: a property whose value is undefined is left out.
JsonEntry(e) ==
    IF EntryEtag(e) = Undefined
    THEN [data |-> e.data, timestamp |-> e.timestamp]
    ELSE [data |-> e.data, timestamp |-> e.timestamp, etag |-> e.etag]

\* persistToStorage(): the whole map, as a plain record, into the Memento.
persistToStorage(m) == [has |-> TRUE, value |-> [k \in DOMAIN m |-> JsonEntry(m[k])]]

\* Faulty variant: an entry exactly staleTTL old is not loaded.
loadFromStorageStrict(gs, t) ==
    IF ~gs.has
    THEN EmptyMap
    ELSE [k \in {x \in DOMAIN gs.value : t - gs.value[x].timestamp < StaleTTL}
             |-> gs.value[k]]

\* loadFromStorage(): the stored entries that are not older than staleTTL.
loadFromStorage(gs, t) ==
    IF ~gs.has
    THEN EmptyMap
    ELSE [k \in {x \in DOMAIN gs.value : t - gs.value[x].timestamp <= StaleTTL}
             |-> gs.value[k]]

\* Faulty variant: an entry exactly freshTTL old counts as stale.
cacheGetStrictFresh(k) ==
    IF k \notin DOMAIN memoryCache
    THEN [found |-> FALSE, data |-> NoData, isFresh |-> FALSE, evicted |-> FALSE,
          memoryCache |-> memoryCache, globalState |-> globalState]
    ELSE IF now - memoryCache[k].timestamp > StaleTTL
    THEN [found |-> FALSE, data |-> NoData, isFresh |-> FALSE, evicted |-> TRUE,
          memoryCache |-> MapDelete(memoryCache, k),
          globalState |-> persistToStorage(MapDelete(memoryCache, k))]
    ELSE [found |-> TRUE, data |-> memoryCache[k].data,
          isFresh |-> (now - memoryCache[k].timestamp < FreshTTL),
          evicted |-> FALSE,
          memoryCache |-> memoryCache, globalState |-> globalState]

\* Faulty variant: an expired entry reads as undefined but stays in the map.
cacheGetKeepsExpired(k) ==
    IF k \notin DOMAIN memoryCache
    THEN [found |-> FALSE, data |-> NoData, isFresh |-> FALSE, evicted |-> FALSE,
          memoryCache |-> memoryCache, globalState |-> globalState]
    ELSE IF now - memoryCache[k].timestamp > StaleTTL
    THEN [found |-> FALSE, data |-> NoData, isFresh |-> FALSE, evicted |-> TRUE,
          memoryCache |-> memoryCache, globalState |-> globalState]
    ELSE [found |-> TRUE, data |-> memoryCache[k].data,
          isFresh |-> (now - memoryCache[k].timestamp <= FreshTTL),
          evicted |-> FALSE,
          memoryCache |-> memoryCache, globalState |-> globalState]

\* get(key): the value returned (found, data, isFresh), whether the entry was
\* evicted, and the map and the Memento as the call leaves them.
cacheGet(k) ==
    IF k \notin DOMAIN memoryCache
    THEN [found |-> FALSE, data |-> NoData, isFresh |-> FALSE, evicted |-> FALSE,
          memoryCache |-> memoryCache, globalState |-> globalState]
    ELSE IF now - memoryCache[k].timestamp > StaleTTL
    THEN [found |-> FALSE, data |-> NoData, isFresh |-> FALSE, evicted |-> TRUE,
          memoryCache |-> MapDelete(memoryCache, k),
          globalState |-> persistToStorage(MapDelete(memoryCache, k))]
    ELSE [found |-> TRUE, data |-> memoryCache[k].data,
          isFresh |-> (now - memoryCache[k].timestamp <= FreshTTL),
          evicted |-> FALSE,
          memoryCache |-> memoryCache, globalState |-> globalState]

\* set(key, data, etag): the map after the call.
cacheSet(m, k, d, etag) == MapSet(m, k, [data |-> d, timestamp |-> now, etag |-> etag])

isRefreshing(k) == k \in DOMAIN pendingRefreshes

\* Faulty variant: starting a fetch cancels the fetches of the key already in flight.
fetchAndCacheCancelling(f, k, kind, cached, force) ==
    MapSet([id \in {x \in DOMAIN f : f[x].key # k} |-> f[id]], invoked + 1,
           [key |-> k, kind |-> kind, phase |-> "pending", force |-> force,
            cachedFound |-> cached.found, cachedData |-> cached.data])

\* fetchAndCache(key, fetcher) up to its await: the fetcher is invoked and its
\* promise is outstanding. The task keeps what the suspended caller holds:
\* its cached value (for the fallback) and its forceRefresh flag.
\* Faulty variant of fetchAndCache: a call that finds a pending fetch of the
\* same kind for the key joins it and the fetcher is not invoked again.
fetchAndCacheJoining(f, k, kind, cached, force) ==
    IF \E id \in DOMAIN f : f[id].key = k /\ f[id].kind = kind /\ f[id].phase = "pending"
    THEN f
    ELSE MapSet(f, invoked + 1,
                [key |-> k, kind |-> kind, phase |-> "pending", force |-> force,
                 cachedFound |-> cached.found, cachedData |-> cached.data])

fetchAndCache(f, k, kind, cached, force) ==
    MapSet(f, invoked + 1,
           [key |-> k, kind |-> kind, phase |-> "pending", force |-> force,
            cachedFound |-> cached.found, cachedData |-> cached.data])

\* Faulty variant: the refresh is started but never entered in pendingRefreshes.
refreshInBackgroundUnregistered(k) ==
    IF k \in DOMAIN pendingRefreshes
    THEN [fetches |-> fetches, pendingRefreshes |-> pendingRefreshes, fetch |-> 0]
    ELSE [fetches |-> fetchAndCache(fetches, k, "background",
                                    [found |-> FALSE, data |-> NoData], FALSE),
          pendingRefreshes |-> pendingRefreshes,
          fetch |-> invoked + 1]

\* Faulty variant: no check for a refresh already in flight.
refreshInBackgroundNoDedup(k) ==
    [fetches |-> fetchAndCache(fetches, k, "background",
                               [found |-> FALSE, data |-> NoData], FALSE),
     pendingRefreshes |-> MapSet(pendingRefreshes, k, invoked + 1),
     fetch |-> invoked + 1]

\* refreshInBackground(key, fetcher): the fetches and the in-flight map after
\* the call, and the fetch it started (0: none).
refreshInBackground(k) ==
    IF k \in DOMAIN pendingRefreshes
    THEN [fetches |-> fetches, pendingRefreshes |-> pendingRefreshes, fetch |-> 0]
    ELSE [fetches |-> fetchAndCache(fetches, k, "background",
                                    [found |-> FALSE, data |-> NoData], FALSE),
          pendingRefreshes |-> MapSet(pendingRefreshes, k, invoked + 1),
          fetch |-> invoked + 1]

Tick ==
    /\ now < MaxTime
    /\ now' = now + 1
    /\ last' = [NoLast EXCEPT !.op = "tick"]
    /\ UNCHANGED <<memoryCache, pendingRefreshes, globalState, fetches, invoked>>
    /\ UNCHANGED notCacheVars

Get(k) ==
    LET g == cacheGet(k) IN
    /\ memoryCache' = g.memoryCache
    /\ globalState' = g.globalState
    /\ last' = [NoLast EXCEPT !.op = "get", !.key = k, !.returned = TRUE,
                              !.found = g.found, !.data = g.data,
                              !.isFresh = g.isFresh, !.evicted = g.evicted]
    /\ UNCHANGED <<now, pendingRefreshes, fetches, invoked>>
    /\ UNCHANGED notCacheVars

Set(k, d, etag) ==
    /\ memoryCache' = cacheSet(memoryCache, k, d, etag)
    /\ globalState' = persistToStorage(memoryCache')
    /\ last' = [NoLast EXCEPT !.op = "set", !.key = k, !.returned = TRUE, !.data = d]
    /\ UNCHANGED <<now, pendingRefreshes, fetches, invoked>>
    /\ UNCHANGED notCacheVars

Clear(k) ==
    /\ memoryCache' = MapDelete(memoryCache, k)
    /\ globalState' = persistToStorage(memoryCache')
    /\ last' = [NoLast EXCEPT !.op = "clear", !.key = k, !.returned = TRUE]
    /\ UNCHANGED <<now, pendingRefreshes, fetches, invoked>>
    /\ UNCHANGED notCacheVars

ClearAll ==
    /\ memoryCache' = EmptyMap
    /\ globalState' = persistToStorage(memoryCache')
    /\ last' = [NoLast EXCEPT !.op = "clearAll", !.returned = TRUE]
    /\ UNCHANGED <<now, pendingRefreshes, fetches, invoked>>
    /\ UNCHANGED notCacheVars

\* getWithRefresh(key, fetcher, {forceRefresh}) up to its first await or its return.
GetWithRefresh(k, force) ==
    LET g == cacheGet(k)
        cached == [found |-> g.found, data |-> g.data]
        call == [NoLast EXCEPT !.op = "getWithRefresh", !.key = k, !.force = force,
                               !.evicted = g.evicted]
    IN
    /\ memoryCache' = g.memoryCache
    /\ globalState' = g.globalState
    /\ IF ~g.found \/ force
       THEN \* no cache or force refresh: await fetchAndCache
            /\ invoked < MaxFetches
            /\ fetches' = fetchAndCache(fetches, k, "sync", cached, force)
            /\ invoked' = invoked + 1
            /\ last' = [call EXCEPT !.fetch = invoked + 1, !.kind = "sync"]
            /\ UNCHANGED pendingRefreshes
       ELSE IF g.isFresh
       THEN /\ last' = [call EXCEPT !.returned = TRUE, !.found = TRUE, !.data = g.data,
                                    !.fromCache = TRUE]
            /\ UNCHANGED <<pendingRefreshes, fetches, invoked>>
       ELSE LET r == refreshInBackground(k) IN
            /\ r.fetch # 0 => invoked < MaxFetches
            /\ fetches' = r.fetches
            /\ pendingRefreshes' = r.pendingRefreshes
            /\ invoked' = IF r.fetch # 0 THEN invoked + 1 ELSE invoked
            /\ last' = [call EXCEPT !.returned = TRUE, !.found = TRUE, !.data = g.data,
                                    !.fromCache = TRUE, !.refreshing = TRUE,
                                    !.fetch = r.fetch,
                                    !.kind = IF r.fetch # 0 THEN "background" ELSE ""]
    /\ UNCHANGED now
    /\ UNCHANGED notCacheVars

RefreshInBackground(k) ==
    LET r == refreshInBackground(k) IN
    /\ r.fetch # 0 => invoked < MaxFetches
    /\ fetches' = r.fetches
    /\ pendingRefreshes' = r.pendingRefreshes
    /\ invoked' = IF r.fetch # 0 THEN invoked + 1 ELSE invoked
    /\ last' = [NoLast EXCEPT !.op = "refreshInBackground", !.key = k, !.returned = TRUE,
                              !.fetch = r.fetch,
                              !.kind = IF r.fetch # 0 THEN "background" ELSE ""]
    /\ UNCHANGED <<now, memoryCache, globalState>>
    /\ UNCHANGED notCacheVars

\* The fetcher's promise fulfils with d: fetchAndCache resumes, stores d and
\* returns it. A synchronous caller (getWithRefresh's await) returns it; a
\* background refresh logs, and its finally callback is queued.
FetcherResolves(id, d) ==
    /\ id \in DOMAIN fetches
    /\ fetches[id].phase = "pending"
    /\ LET t == fetches[id] IN
       /\ memoryCache' = cacheSet(memoryCache, t.key, d, Undefined)
       /\ globalState' = persistToStorage(memoryCache')
       /\ IF t.kind = "sync"
          THEN /\ fetches' = MapDelete(fetches, id)
               /\ last' = [NoLast EXCEPT !.op = "resolved", !.key = t.key,
                                         !.kind = "sync", !.fetch = id,
                                         !.force = t.force,
                                         !.returned = TRUE, !.found = TRUE,
                                         !.data = d]
          ELSE /\ fetches' = [fetches EXCEPT ![id].phase = "fulfilled"]
               /\ last' = [NoLast EXCEPT !.op = "resolved", !.key = t.key,
                                         !.kind = "background", !.fetch = id,
                                         !.data = d]
    /\ UNCHANGED <<now, pendingRefreshes, invoked>>
    /\ UNCHANGED notCacheVars

\* Faulty variant: the catch block rethrows whatever the call had read.
catchFetchErrorRethrows(t) == [NoLast EXCEPT !.returned = TRUE, !.threw = TRUE]

\* getWithRefresh's catch block: the stale value the call read at its start,
\* if it read one; otherwise the error is rethrown.
catchFetchError(t) ==
    IF t.cachedFound
    THEN [NoLast EXCEPT !.returned = TRUE, !.found = TRUE, !.data = t.cachedData,
                        !.fromCache = TRUE]
    ELSE [NoLast EXCEPT !.returned = TRUE, !.threw = TRUE]

\* The fetcher's promise rejects: fetchAndCache rejects without storing. A
\* synchronous caller falls back to the value it read at call start, or
\* rethrows; a background refresh logs a warning.
FetcherRejects(id) ==
    /\ id \in DOMAIN fetches
    /\ fetches[id].phase = "pending"
    /\ LET t == fetches[id] IN
       IF t.kind = "sync"
       THEN /\ fetches' = MapDelete(fetches, id)
            /\ last' = [catchFetchError(t) EXCEPT !.op = "rejected", !.key = t.key,
                                                    !.kind = "sync", !.fetch = id,
                                                    !.force = t.force]
       ELSE /\ fetches' = [fetches EXCEPT ![id].phase = "rejected"]
            /\ last' = [NoLast EXCEPT !.op = "rejected", !.key = t.key,
                                      !.kind = "background", !.fetch = id]
    /\ UNCHANGED <<now, memoryCache, globalState, pendingRefreshes, invoked>>
    /\ UNCHANGED notCacheVars

\* Faulty variant: the settled refresh is dropped without clearing its in-flight marker.
RefreshFinallyKeepsMarker(id) ==
    /\ id \in DOMAIN fetches
    /\ fetches[id].phase \in {"fulfilled", "rejected"}
    /\ fetches' = MapDelete(fetches, id)
    /\ last' = [NoLast EXCEPT !.op = "finally", !.key = fetches[id].key,
                              !.kind = "background", !.fetch = id,
                              !.outcome = fetches[id].phase]
    /\ UNCHANGED <<now, memoryCache, globalState, invoked, pendingRefreshes>>
    /\ UNCHANGED notCacheVars

\* The finally callback of a settled background refresh.
RefreshFinally(id) ==
    /\ id \in DOMAIN fetches
    /\ fetches[id].phase \in {"fulfilled", "rejected"}
    /\ pendingRefreshes' = MapDelete(pendingRefreshes, fetches[id].key)
    /\ fetches' = MapDelete(fetches, id)
    /\ last' = [NoLast EXCEPT !.op = "finally", !.key = fetches[id].key,
                              !.kind = "background", !.fetch = id,
                              !.outcome = fetches[id].phase]
    /\ UNCHANGED <<now, memoryCache, globalState, invoked>>
    /\ UNCHANGED notCacheVars

\* The extension host restarts and activation constructs a new MarketplaceCache
\* over the same Memento; what the old instance had in flight is gone.
Restart ==
    /\ memoryCache' = loadFromStorage(globalState, now)
    /\ pendingRefreshes' = EmptyMap
    /\ fetches' = EmptyMap
    /\ last' = [NoLast EXCEPT !.op = "construct"]
    /\ UNCHANGED <<now, globalState, invoked>>
    /\ UNCHANGED notCacheVars

(***************************************************************************)
(* marketplace.ts: candidateMarketplaceUrls, resolveMarketplaceUrl,        *)
(* normalizeMarketplaceDocument, fetchMarketplace                          *)
(*                                                                         *)
(* A URL string is modelled by what new URL() makes of it: whether it      *)
(* parses, its protocol, its hostname, the non-empty segments of its       *)
(* pathname and whether the pathname ends in a slash. A path segment is a  *)
(* name and an extension (its text is the two joined), so that the regular *)
(* expressions on file extensions have something to decide.                *)
(***************************************************************************)
Seg(n, e) == [name |-> n, ext |-> e]
Url(protocol, hostname, parts, slash) ==
    [valid |-> TRUE, protocol |-> protocol, hostname |-> hostname,
     parts |-> parts, slash |-> slash]
\* A string new URL() throws on.
NotAUrl(text) ==
    [valid |-> FALSE, protocol |-> "", hostname |-> "",
     parts |-> <<Seg(text, "")>>, slash |-> FALSE]
NoUrl == NotAUrl("")

Range(q) == {q[i] : i \in DOMAIN q}
\* Set.add on a Set kept as a sequence in insertion order.
SetAdd(q, x) == IF x \in Range(q) THEN q ELSE Append(q, x)

\* parts[1].replace(/\.git$/i, '')
StripGit(seg) == IF seg.ext \in {".git", ".GIT"} THEN Seg(seg.name, "") ELSE seg

RawUrl(owner, repo, rest) ==
    Url("https:", "raw.githubusercontent.com", <<owner, repo>> \o rest, FALSE)

ClaudePluginManifest == <<Seg(".claude-plugin", ""), Seg("marketplace", ".json")>>
GitHubPluginManifest == <<Seg(".github", ""), Seg("plugin", ""), Seg("marketplace", ".json")>>

\* /\.[a-z0-9]+$/i.test(parsed.pathname)
hasFileName(u) ==
    /\ ~u.slash
    /\ Len(u.parts) > 0
    /\ u.parts[Len(u.parts)].ext # ""

\* parsed.pathname.endsWith('/marketplace.json')
endsWithMarketplaceJson(u) ==
    /\ ~u.slash
    /\ Len(u.parts) > 0
    /\ u.parts[Len(u.parts)] = Seg("marketplace", ".json")

\* Faulty variant: the branch is left out of the raw-content URL.
blobCandidateWithoutBranch(u) ==
    RawUrl(u.parts[1], StripGit(u.parts[2]), SubSeq(u.parts, 5, Len(u.parts)))

\* https://raw.githubusercontent.com/${owner}/${repo}/${branch}/${remainder}
\* of an input /<owner>/<repo>/blob/<branch>/<remainder>
blobCandidate(u) ==
    RawUrl(u.parts[1], StripGit(u.parts[2]), SubSeq(u.parts, 4, Len(u.parts)))

\* Faulty variant: the repository-root candidates are ordered by branch first.
candidateMarketplaceUrlsBranchFirst(u) ==
    IF u.valid /\ u.protocol \in {"http:", "https:"}
       /\ u.hostname \in {"github.com", "www.github.com"} /\ Len(u.parts) >= 2
       /\ ~(Len(u.parts) >= 5 /\ u.parts[3] = Seg("blob", ""))
    THEN LET owner == u.parts[1]
             repo == StripGit(u.parts[2])
         IN  << RawUrl(owner, repo, <<Seg("main", "")>> \o ClaudePluginManifest),
                RawUrl(owner, repo, <<Seg("main", "")>> \o GitHubPluginManifest),
                RawUrl(owner, repo, <<Seg("master", "")>> \o ClaudePluginManifest),
                RawUrl(owner, repo, <<Seg("master", "")>> \o GitHubPluginManifest) >>
    ELSE <<u>>

\* Faulty variant: the derived candidates of a plain input are tried in the
\* other order.
candidateMarketplaceUrlsGitHubFirst(u) ==
    IF ~u.valid
    THEN <<u>>
    ELSE IF u.protocol \notin {"http:", "https:"}
    THEN <<u>>
    ELSE IF u.hostname \in {"github.com", "www.github.com"} /\ Len(u.parts) >= 2
    THEN IF Len(u.parts) >= 5 /\ u.parts[3] = Seg("blob", "")
         THEN <<blobCandidate(u)>>
         ELSE SetAdd(SetAdd(SetAdd(SetAdd(<<>>,
                RawUrl(u.parts[1], StripGit(u.parts[2]),
                       <<Seg("main", "")>> \o ClaudePluginManifest)),
                RawUrl(u.parts[1], StripGit(u.parts[2]),
                       <<Seg("master", "")>> \o ClaudePluginManifest)),
                RawUrl(u.parts[1], StripGit(u.parts[2]),
                       <<Seg("main", "")>> \o GitHubPluginManifest)),
                RawUrl(u.parts[1], StripGit(u.parts[2]),
                       <<Seg("master", "")>> \o GitHubPluginManifest))
    ELSE IF ~hasFileName(u) /\ ~endsWithMarketplaceJson(u)
    THEN SetAdd(SetAdd(<<u>>,
            Url(u.protocol, u.hostname, u.parts \o GitHubPluginManifest, FALSE)),
            Url(u.protocol, u.hostname, u.parts \o ClaudePluginManifest, FALSE))
    ELSE <<u>>

candidateMarketplaceUrls(u) ==
    IF ~u.valid
    THEN <<u>>
    ELSE IF u.protocol \notin {"http:", "https:"}
    THEN <<u>>
    ELSE IF u.hostname \in {"github.com", "www.github.com"} /\ Len(u.parts) >= 2
    THEN LET owner == u.parts[1]
             repo == StripGit(u.parts[2])
         IN  IF Len(u.parts) >= 5 /\ u.parts[3] = Seg("blob", "")
             THEN <<blobCandidate(u)>>
             ELSE SetAdd(SetAdd(SetAdd(SetAdd(<<>>,
                    RawUrl(owner, repo, <<Seg("main", "")>> \o ClaudePluginManifest)),
                    RawUrl(owner, repo, <<Seg("master", "")>> \o ClaudePluginManifest)),
                    RawUrl(owner, repo, <<Seg("main", "")>> \o GitHubPluginManifest)),
                    RawUrl(owner, repo, <<Seg("master", "")>> \o GitHubPluginManifest))
    ELSE IF ~hasFileName(u) /\ ~endsWithMarketplaceJson(u)
    THEN SetAdd(SetAdd(<<u>>,
            Url(u.protocol, u.hostname, u.parts \o ClaudePluginManifest, FALSE)),
            Url(u.protocol, u.hostname, u.parts \o GitHubPluginManifest, FALSE))
    ELSE <<u>>

\* The URLs a user may configure.
Inputs ==
    { NotAUrl("acme/skills"),
      Url("ftp:", "example.com", <<Seg("market", "")>>, FALSE),
      Url("https:", "github.com", <<Seg("acme", ""), Seg("skills", "")>>, FALSE),
      Url("https:", "github.com", <<Seg("acme", ""), Seg("skills", ".git")>>, FALSE),
      Url("https:", "github.com",
          <<Seg("acme", ""), Seg("skills", ""), Seg("blob", ""), Seg("dev", ""),
            Seg("catalog", ""), Seg("marketplace", ".json")>>, FALSE),
      Url("https:", "github.com", <<Seg("acme", "")>>, FALSE),
      Url("https:", "example.com", <<Seg("plugins", "")>>, TRUE),
      Url("https:", "example.com", <<Seg("catalog", ""), Seg("marketplace", ".json")>>, FALSE) }

\* How a GET may be answered: a 2xx response, another response, a network error.
ProbeOutcomes == {"ok", "notOk", "throw"}

\* Faulty variant of probeFailed: any response, whatever its status, is taken.
probeFailedOnlyOnThrow(outcome) == outcome = "throw"

\* The probe did not give a usable document: !response.ok, or fetch threw.
probeFailed(outcome) == outcome # "ok"

\* The warning resolveMarketplaceUrl pushes for a failed candidate.
candidateWarning(outcome, candidate) ==
    [kind |-> IF outcome = "throw" THEN "Marketplace candidate unreachable"
                                   ELSE "Marketplace candidate failed",
     url |-> candidate]

\* A JSON value where the code expects a string: absent, a number, or a
\* string (blank, padded with spaces, or plain).
Absent == [type |-> "undefined", text |-> ""]
Num(text) == [type |-> "number", text |-> text]
Str(text) == [type |-> "string", text |-> text]

\* String.prototype.trim on the strings of the model.
Trim(text) ==
    CASE text = "  " -> ""
      [] text = " c " -> "c"
      [] OTHER -> text

\* asString: the trimmed string, or "" for undefined.
asString(value) ==
    IF value.type # "string" THEN "" ELSE Trim(value.text)

\* A manifest entry: the kind of JSON value it is and, for an object, what
\* is under id, slug and name.
Entry(kind, id, slug, name) ==
    [kind |-> kind, id |-> id, slug |-> slug, name |-> name]
NonObject(kind) == Entry(kind, Absent, Absent, Absent)

\* asRecord(value) is defined: an object that is neither null nor an array.
asRecord(value) == value.kind = "object"

\* What is under one key of a manifest object: an array, or something else.
Arr(list) == [isArray |-> TRUE, list |-> list]
NotArr == [isArray |-> FALSE, list |-> <<>>]

\* A decoded manifest: the kind of JSON value it is, its elements when it is
\* an array, and what is under plugins, items and extensions when it is an
\* object.
Document(kind, list, plugins, items, extensions) ==
    [kind |-> kind, list |-> list, plugins |-> plugins, items |-> items,
     extensions |-> extensions]

EntryA == Entry("object", Str("a"), Absent, Str("Plugin A"))
EntryB == Entry("object", Absent, Str("b"), Absent)
EntryC == Entry("object", Str("  "), Num("7"), Str(" c "))
EntryA2 == Entry("object", Str("a"), Absent, Str("Another A"))
NoIdentity == Entry("object", Num("5"), Absent, Str("  "))
\* An entry whose id has the separator of the plugin key in it.
EntryScoped == Entry("object", Str("a::https://mirror.example/p"), Absent, Str("b"))

Documents ==
    { Document("array", <<EntryA>>, NotArr, NotArr, NotArr),
      Document("object", <<>>,
               Arr(<<EntryB, NoIdentity, NonObject("string"), EntryA, EntryA2>>),
               NotArr, NotArr),
      Document("object", <<>>, Arr(<<>>), Arr(<<EntryA>>), NotArr),
      Document("object", <<>>, NotArr, Arr(<<EntryC, NonObject("array")>>), Arr(<<EntryA>>)),
      Document("object", <<>>, NotArr, NotArr, Arr(<<NonObject("null"), NoIdentity>>)),
      Document("object", <<>>, NotArr, NotArr, NotArr),
      Document("array", <<>>, NotArr, NotArr, NotArr),
      Document("string", <<>>, NotArr, NotArr, NotArr),
      Document("null", <<>>, NotArr, NotArr, NotArr) }

\* Faulty variant: the first of plugins, items, extensions that is present
\* decides, array or not.
getPluginListFirstKey(document) ==
    IF document.kind = "array"
    THEN document.list
    ELSE document.plugins.list

getPluginList(document) ==
    IF document.kind = "array"
    THEN document.list
    ELSE IF ~asRecord(document)
    THEN <<>>
    ELSE IF document.plugins.isArray THEN document.plugins.list
    ELSE IF document.items.isArray THEN document.items.list
    ELSE IF document.extensions.isArray THEN document.extensions.list
    ELSE <<>>

(***************************************************************************)
(* marketplace.ts: group items (buildItemFromPath, buildGroupItem,         *)
(* toGroupItems, mergeGroupItems, collectGroupValues, extractPluginGroups)  *)
(*                                                                         *)
(* A string that the code reads as a path, a name or a description is      *)
(* modelled by the pieces the code's regular expressions and joins look    *)
(* at: a scheme ("https:" for a string that starts with https://), a       *)
(* leading "./" or "/", the segments between slashes (name and extension)  *)
(* and the number of trailing slashes. A                                   *)
(* string with surrounding white space is a single segment whose name      *)
(* carries the white space. NoText is undefined.                           *)
(***************************************************************************)
Text(scheme, lead, parts, trail) ==
    [defined |-> TRUE, scheme |-> scheme, lead |-> lead, parts |-> parts,
     trail |-> trail]
NoText == [defined |-> FALSE, scheme |-> "", lead |-> "", parts |-> <<>>, trail |-> 0]
EmptyText == Text("", "", <<>>, 0)
\* A string without slashes.
Word(w) == Text("", "", <<Seg(w, "")>>, 0)
\* A relative path of plain segments.
Path(parts) == Text("", "", parts, 0)

\* String.prototype.trim on the strings of this model.
trimText(t) ==
    IF t.scheme = "" /\ t.lead = "" /\ t.trail = 0 /\ Len(t.parts) = 1
    THEN IF Trim(t.parts[1].name) = "" /\ t.parts[1].ext = ""
         THEN EmptyText
         ELSE Path(<<Seg(Trim(t.parts[1].name), t.parts[1].ext)>>)
    ELSE t

\* String.prototype.toLowerCase on the pieces of the strings of this model.
LowerCase(s) ==
    CASE s = "Summarize" -> "summarize"
      [] s = "SUMMARIZE" -> "summarize"
      [] s = "Triage" -> "triage"
      [] s = "NOTES" -> "notes"
      [] s = ".MD" -> ".md"
      [] s = "HTTPS:" -> "https:"
      [] OTHER -> s
toLowerCase(t) ==
    [t EXCEPT !.scheme = LowerCase(t.scheme),
              !.parts = [i \in 1..Len(t.parts) |->
                            Seg(LowerCase(t.parts[i].name), LowerCase(t.parts[i].ext))]]

\* value.replace(/^\.\//, '').replace(/^\//, '')
normalizeRelativePath(t) ==
    IF t.scheme # "" THEN t ELSE [t EXCEPT !.lead = ""]

\* .replace(/\/+$/, '')
stripTrailingSlashes(t) ==
    IF t.parts # <<>> THEN [t EXCEPT !.trail = 0]
    ELSE IF t.lead = "/" THEN [t EXCEPT !.lead = ""]
    ELSE IF t.lead = "./" THEN [t EXCEPT !.lead = "", !.parts = <<Seg(".", "")>>]
    ELSE t

\* /^https?:\/\//i.test(value)
isHttpUrl(t) == LowerCase(t.scheme) \in {"http:", "https:"}

\* /\.md$/i.test(value)
isMarkdownPath(t) ==
    /\ t.parts # <<>>
    /\ t.trail = 0
    /\ LowerCase(t.parts[Len(t.parts)].ext) = ".md"

\* `${base}/${rest}` for a base that is not empty and ends in no slash and a
\* rest that starts with no slash.
joinPath(base, rest) ==
    IF rest.parts = <<>>
    THEN [base EXCEPT !.trail = 1]
    ELSE [base EXCEPT !.parts = base.parts \o rest.parts, !.trail = rest.trail]

\* The segments the string puts between the slashes of `${url}/${path}/...`
\* (an empty segment for an empty string and for each trailing slash).
EmptySeg == Seg("", "")
segmentsOf(t) ==
    IF t.parts = <<>>
    THEN <<EmptySeg>>
    ELSE t.parts \o [i \in 1..t.trail |-> EmptySeg]

\* The URL an http(s) string is.
textUrl(t) ==
    Url(LowerCase(t.scheme),
        IF t.parts = <<>> THEN "" ELSE t.parts[1].name,
        IF t.parts = <<>> THEN <<>> ELSE Tail(t.parts),
        t.trail > 0)

\* `${url}/${segments joined by slashes}`
appendSegments(u, segs) == [u EXCEPT !.parts = u.parts \o segs]

(***************************************************************************)
(* A decoded JSON value under a key of a plugin entry, of a sub-manifest   *)
(* or of an item: undefined (the key is absent), null, a number, a string, *)
(* an array, or an object with its keys in insertion order.                *)
(***************************************************************************)
JUndefined == [kind |-> "undefined"]
JNull == [kind |-> "null"]
JNumber == [kind |-> "number"]
JString(text) == [kind |-> "string", text |-> text]
JArray(list) == [kind |-> "array", list |-> list]
JObject(keys, at) == [kind |-> "object", keys |-> keys, at |-> at]

\* record[key]
valueAt(record, key) ==
    IF "at" \in DOMAIN record /\ key \in DOMAIN record.at
    THEN record.at[key]
    ELSE JUndefined

\* left ?? right
orElse(left, right) ==
    IF left.kind \in {"undefined", "null"} THEN right ELSE left

\* asString on the strings of this section: the trimmed string, or undefined
\* for a blank string and for what is not a string.
asStringText(value) ==
    IF value.kind # "string" THEN NoText
    ELSE IF trimText(value.text) = EmptyText THEN NoText
    ELSE trimText(value.text)

\* left ?? right for the results of asString
firstText(left, right) == IF left.defined THEN left ELSE right

\* A plugin entry with further keys beside id, slug and name.
PluginEntry(entry, keys, at) ==
    [kind |-> entry.kind, id |-> entry.id, slug |-> entry.slug, name |-> entry.name,
     keys |-> keys, at |-> at]

\* repoContextFromDocumentUrl(documentUrl) is defined: the URL starts with
\* https://raw.githubusercontent.com/<owner>/<repo>/<branch>/
hasRepoContext(u) ==
    /\ u.valid
    /\ u.protocol = "https:"
    /\ u.hostname = "raw.githubusercontent.com"
    /\ \/ Len(u.parts) >= 4
       \/ Len(u.parts) = 3 /\ u.slash

NoRepoContext ==
    [defined |-> FALSE, owner |-> EmptySeg, repo |-> EmptySeg, branch |-> EmptySeg,
     rawBaseUrl |-> NoUrl, blobBaseUrl |-> NoUrl]

repoContextFromDocumentUrl(u) ==
    IF ~hasRepoContext(u)
    THEN NoRepoContext
    ELSE [defined |-> TRUE, owner |-> u.parts[1], repo |-> u.parts[2],
          branch |-> u.parts[3],
          rawBaseUrl |-> RawUrl(u.parts[1], u.parts[2], <<u.parts[3]>>),
          blobBaseUrl |-> Url("https:", "github.com",
                              <<u.parts[1], u.parts[2], Seg("blob", ""), u.parts[3]>>,
                              FALSE)]

\* summaryFromRecord: name ?? id ?? slug ?? title
summaryFromRecord(record) ==
    firstText(asStringText(valueAt(record, "name")),
      firstText(asStringText(valueAt(record, "id")),
        firstText(asStringText(valueAt(record, "slug")),
                  asStringText(valueAt(record, "title")))))

\* Faulty variant: AGENTS.md is tried before AGENT.md.
descriptorDefaultsForGroupPluralFirst(groupKey) ==
    CASE groupKey = "skills" -> <<Seg("SKILL", ".md"), Seg("README", ".md")>>
      [] groupKey = "agents" ->
            <<Seg("AGENTS", ".md"), Seg("AGENT", ".md"), Seg("README", ".md")>>
      [] OTHER -> <<Seg("README", ".md")>>

descriptorDefaultsForGroup(groupKey) ==
    CASE groupKey = "skills" -> <<Seg("SKILL", ".md"), Seg("README", ".md")>>
      [] groupKey = "agents" ->
            <<Seg("AGENT", ".md"), Seg("AGENTS", ".md"), Seg("README", ".md")>>
      [] OTHER -> <<Seg("README", ".md")>>

\* A MarketplaceGroupItem; NoText and NoUrl stand for undefined.
MarketplaceGroupItem(name, path, metadataUrl, metadataFallbackUrls, docUrl, description) ==
    [name |-> name, path |-> path, metadataUrl |-> metadataUrl,
     metadataFallbackUrls |-> metadataFallbackUrls, docUrl |-> docUrl,
     description |-> description]
\* buildGroupItem returns undefined.
NoGroupItem == MarketplaceGroupItem(NoText, NoText, NoUrl, <<>>, NoUrl, NoText)

\* Faulty variant: the repository context is ignored.
buildItemFromPathIgnoringRepository(pathValue, groupKey, repoContext) ==
    LET cleanedPath == normalizeRelativePath(pathValue) IN
    MarketplaceGroupItem(cleanedPath, cleanedPath,
        IF isHttpUrl(cleanedPath) THEN textUrl(cleanedPath) ELSE NoUrl, <<>>,
        IF isHttpUrl(cleanedPath) THEN textUrl(cleanedPath) ELSE NoUrl, NoText)

buildItemFromPath(pathValue, groupKey, repoContext) ==
    LET cleanedPath == normalizeRelativePath(pathValue)
        descriptorFiles == descriptorDefaultsForGroup(groupKey)
    IN  IF ~repoContext.defined \/ isHttpUrl(cleanedPath)
        THEN MarketplaceGroupItem(cleanedPath, cleanedPath,
                 IF isHttpUrl(cleanedPath) THEN textUrl(cleanedPath) ELSE NoUrl, <<>>,
                 IF isHttpUrl(cleanedPath) THEN textUrl(cleanedPath) ELSE NoUrl, NoText)
        ELSE IF isMarkdownPath(cleanedPath)
        THEN MarketplaceGroupItem(cleanedPath, cleanedPath,
                 appendSegments(repoContext.rawBaseUrl, segmentsOf(cleanedPath)), <<>>,
                 appendSegments(repoContext.blobBaseUrl, segmentsOf(cleanedPath)), NoText)
        ELSE LET metadataCandidates ==
                    [i \in 1..Len(descriptorFiles) |->
                        appendSegments(repoContext.rawBaseUrl,
                                       segmentsOf(cleanedPath) \o <<descriptorFiles[i]>>)]
             IN  MarketplaceGroupItem(cleanedPath, cleanedPath,
                     metadataCandidates[1], Tail(metadataCandidates),
                     appendSegments(repoContext.blobBaseUrl,
                                    segmentsOf(cleanedPath) \o <<descriptorFiles[1]>>),
                     NoText)

\* { ...base, name: summaryFromRecord(entry) ?? base.name,
\*   description: asString(entry.description) ?? base.description }
describedBy(entry, base) ==
    [base EXCEPT
        !.name = firstText(summaryFromRecord(entry), base.name),
        !.description = firstText(asStringText(valueAt(entry, "description")),
                                  base.description)]

buildGroupItem(entry, groupKey, repoContext) ==
    IF entry.kind = "string"
    THEN buildItemFromPath(entry.text, groupKey, repoContext)
    ELSE IF ~asRecord(entry)
    THEN NoGroupItem
    ELSE LET pathValue == firstText(asStringText(valueAt(entry, "path")),
                            firstText(asStringText(valueAt(entry, "source")),
                                      asStringText(valueAt(entry, "url"))))
         IN  IF pathValue.defined
             THEN describedBy(entry,
                              buildItemFromPath(pathValue, groupKey, repoContext))
             ELSE IF ~summaryFromRecord(entry).defined
             THEN NoGroupItem
             ELSE MarketplaceGroupItem(summaryFromRecord(entry), NoText, NoUrl, <<>>,
                                       NoUrl,
                                       asStringText(valueAt(entry, "description")))

\* buildGroupItem(entry, ...) ?? { name: entryName }
itemOrNamed(item, entryName) ==
    IF item # NoGroupItem THEN item
    ELSE MarketplaceGroupItem(Word(entryName), NoText, NoUrl, <<>>, NoUrl, NoText)

toGroupItems(value, groupKey, repoContext) ==
    IF value.kind = "array"
    THEN SelectSeq([i \in 1..Len(value.list) |->
                       buildGroupItem(value.list[i], groupKey, repoContext)],
                   LAMBDA item : item # NoGroupItem)
    ELSE IF ~asRecord(value)
    THEN <<>>
    ELSE [i \in 1..Len(value.keys) |->
            itemOrNamed(buildGroupItem(value.at[value.keys[i]], groupKey, repoContext),
                        value.keys[i])]

\* The Map of mergeGroupItems, as the sequence of its values in insertion
\* order: an item is set unless its lower-cased name is a key already.
RECURSIVE dedupeByName(_, _)
dedupeByName(deduped, items) ==
    IF items = <<>>
    THEN deduped
    ELSE dedupeByName(
            IF \E i \in 1..Len(deduped) :
                  toLowerCase(deduped[i].name) = toLowerCase(Head(items).name)
            THEN deduped
            ELSE Append(deduped, Head(items)),
            Tail(items))

\* Faulty variant: on a name conflict the later item replaces the earlier.
RECURSIVE dedupeByNameLastWins(_, _)
dedupeByNameLastWins(deduped, items) ==
    IF items = <<>>
    THEN deduped
    ELSE dedupeByNameLastWins(
            IF \E i \in 1..Len(deduped) :
                  toLowerCase(deduped[i].name) = toLowerCase(Head(items).name)
            THEN [i \in 1..Len(deduped) |->
                    IF toLowerCase(deduped[i].name) = toLowerCase(Head(items).name)
                    THEN Head(items) ELSE deduped[i]]
            ELSE Append(deduped, Head(items)),
            Tail(items))
mergeGroupItemsLastWins(primary, secondary) ==
    dedupeByNameLastWins(<<>>, primary \o secondary)

mergeGroupItems(primary, secondary) == dedupeByName(<<>>, primary \o secondary)

collectGroupValues(record, key, repoContext) ==
    LET manifest == valueAt(record, "manifest")
        primary == toGroupItems(valueAt(record, key), key, repoContext)
        secondary == toGroupItems(IF asRecord(manifest) THEN valueAt(manifest, key)
                                  ELSE JUndefined,
                                  key, repoContext)
    IN  mergeGroupItems(primary, secondary)

groupDefinitions ==
    << [key |-> "skills", name |-> "Skills"],
       [key |-> "agents", name |-> "Agents"],
       [key |-> "commands", name |-> "Commands"],
       [key |-> "tools", name |-> "Tools"],
       [key |-> "prompts", name |-> "Prompts"],
       [key |-> "workflows", name |-> "Workflows"] >>

\* Faulty variant: a group is pushed for every category, with or without items.
RECURSIVE extractGroupsKeepingEmpty(_, _, _, _)
extractGroupsKeepingEmpty(record, repoContext, index, groups) ==
    IF index > Len(groupDefinitions)
    THEN groups
    ELSE extractGroupsKeepingEmpty(record, repoContext, index + 1,
            Append(groups,
                   [name |-> groupDefinitions[index].name,
                    key |-> groupDefinitions[index].key,
                    items |-> collectGroupValues(record, groupDefinitions[index].key,
                                                 repoContext)]))

extractPluginGroupsKeepingEmpty(record, repoContext) ==
    extractGroupsKeepingEmpty(record, repoContext, 1, <<>>)

\* if (items.length > 0) { groups.push({ name, key, items }) }
groupsWith(groups, definition, items) ==
    IF Len(items) > 0
    THEN Append(groups, [name |-> definition.name, key |-> definition.key,
                         items |-> items])
    ELSE groups

\* The loop of extractPluginGroups from the definition at index on.
RECURSIVE extractGroups(_, _, _, _)
extractGroups(record, repoContext, index, groups) ==
    IF index > Len(groupDefinitions)
    THEN groups
    ELSE extractGroups(record, repoContext, index + 1,
            groupsWith(groups, groupDefinitions[index],
                       collectGroupValues(record, groupDefinitions[index].key,
                                          repoContext)))

extractPluginGroups(record, repoContext) == extractGroups(record, repoContext, 1, <<>>)

\* Where hydratePluginGroupsFromSource is for the plugin being hydrated: the
\* await it is suspended at (the GET of a sub-manifest candidate, or the
\* listing of a convention directory, of a string value or of a string in
\* an array value), and its locals.
Walk(stage, candidate, sourceConfig, group, entry, items, hydratedGroups, path, resolved) ==
    [stage |-> stage, candidate |-> candidate, sourceConfig |-> sourceConfig,
     group |-> group, entry |-> entry, items |-> items,
     hydratedGroups |-> hydratedGroups, path |-> path, resolved |-> resolved]
NoWalk == Walk("none", 0, JUndefined, 0, 0, <<>>, <<>>, NoText, NoText)
startWalk == Walk("config", 1, JUndefined, 1, 0, <<>>, <<>>, NoText, NoText)

\* Faulty variant: an entry without identity is dropped silently.
normalizePluginSilent(entry, source, documentUrl, repoContext) ==
    IF ~asRecord(entry)
    THEN [hasPlugin |-> FALSE, hasWarning |-> TRUE,
          warning |-> [kind |-> "Skipped non-object plugin entry", url |-> source]]
    ELSE LET id == IF asString(entry.id) # "" THEN asString(entry.id)
                   ELSE IF asString(entry.slug) # "" THEN asString(entry.slug)
                   ELSE asString(entry.name)
         IN  IF id = ""
             THEN [hasPlugin |-> FALSE, hasWarning |-> FALSE]
             ELSE [hasPlugin |-> TRUE, hasWarning |-> FALSE,
                   plugin |-> [id |-> id,
                               name |-> IF asString(entry.name) # ""
                                        THEN asString(entry.name) ELSE id,
                               groups |-> extractPluginGroups(entry, repoContext),
                               sourceUrl |-> source,
                               marketplaceDocumentUrl |-> documentUrl,
                               raw |-> entry]]

\* normalizePlugin: a plugin (its identity, name, groups, provenance and raw
\* entry) or a warning.
normalizePlugin(entry, source, documentUrl, repoContext) ==
    IF ~asRecord(entry)
    THEN [hasPlugin |-> FALSE, hasWarning |-> TRUE,
          warning |-> [kind |-> "Skipped non-object plugin entry", url |-> source]]
    ELSE LET id == IF asString(entry.id) # "" THEN asString(entry.id)
                   ELSE IF asString(entry.slug) # "" THEN asString(entry.slug)
                   ELSE asString(entry.name)
         IN  IF id = ""
             THEN [hasPlugin |-> FALSE, hasWarning |-> TRUE,
                   warning |-> [kind |-> "Skipped plugin entry without id/name",
                                url |-> source]]
             ELSE [hasPlugin |-> TRUE, hasWarning |-> FALSE,
                   plugin |-> [id |-> id,
                               name |-> IF asString(entry.name) # ""
                                        THEN asString(entry.name) ELSE id,
                               groups |-> extractPluginGroups(entry, repoContext),
                               sourceUrl |-> source,
                               marketplaceDocumentUrl |-> documentUrl,
                               raw |-> entry]]

\* One turn of the loop of normalizeMarketplaceDocument: the plugin or the
\* warning of an entry is pushed.
pushNormalized(acc, n) ==
    [plugins |-> IF n.hasPlugin THEN Append(acc.plugins, n.plugin) ELSE acc.plugins,
     warnings |-> IF n.hasWarning THEN Append(acc.warnings, n.warning)
                                  ELSE acc.warnings,
     errors |-> acc.errors]

RECURSIVE normalizeEntries(_, _, _, _, _)
normalizeEntries(entries, source, documentUrl, repoContext, acc) ==
    IF entries = <<>>
    THEN acc
    ELSE normalizeEntries(Tail(entries), source, documentUrl, repoContext,
            pushNormalized(acc, normalizePlugin(Head(entries), source, documentUrl,
                                                repoContext)))

normalizeMarketplaceDocument(document, source, documentUrl, repoContext) ==
    LET entries == getPluginList(document) IN
    normalizeEntries(entries, source, documentUrl, repoContext,
        [plugins |-> <<>>,
         warnings |-> IF Len(entries) = 0
                      THEN <<[kind |-> "No plugin entries found", url |-> source]>>
                      ELSE <<>>,
         errors |-> <<>>])

NoResolution == [hasDocumentUrl |-> FALSE, documentUrl |-> NoUrl,
                 warnings |-> <<>>, errors |-> <<>>]
NoResult == [plugins |-> <<>>, warnings |-> <<>>, errors |-> <<>>]
NoDocument == Document("undefined", <<>>, NotArr, NotArr, NotArr)

\* What resolveMarketplaceUrl returns when a probe is answered with a 2xx.
resolvedAt(candidate) ==
    [hasDocumentUrl |-> TRUE, documentUrl |-> candidate,
     warnings |-> <<>>, errors |-> <<>>]

\* Faulty variant: the failed resolution reports its error but not the warnings.
unresolvedWithoutWarnings(w, input) ==
    [hasDocumentUrl |-> FALSE, documentUrl |-> NoUrl, warnings |-> <<>>,
     errors |-> <<[kind |-> "Could not resolve marketplace document", url |-> input]>>]

\* What resolveMarketplaceUrl returns after the last candidate has failed.
unresolved(w, input) ==
    [hasDocumentUrl |-> FALSE, documentUrl |-> NoUrl, warnings |-> w,
     errors |-> <<[kind |-> "Could not resolve marketplace document", url |-> input]>>]

(***************************************************************************)
(* github-auth.ts and marketplace.ts: authenticatedFetch and the places    *)
(* that issue a GET.                                                       *)
(*                                                                         *)
(* Headers are functions from header names to values.                      *)
(***************************************************************************)
NoHeaders == [h \in {} |-> ""]
\* {...a, ...b}
mergeHeaders(a, b) ==
    [h \in (DOMAIN a) \cup (DOMAIN b) |-> IF h \in DOMAIN b THEN b[h] ELSE a[h]]
ApiHeaders ==
    [h \in {"User-Agent", "Accept"} |->
        IF h = "User-Agent" THEN "vscode-agent-plugins" ELSE "application/vnd.github+json"]

\* How vscode.authentication.getSession('github', ['repo'], {createIfNone:
\* false}) ends: with a session, with undefined, or by throwing.
SessionOutcomes == {"session", "none", "fails"}

\* getGitHubSession(false): the session, or undefined when there is none or
\* the provider throws.
getGitHubSession(outcome) == [has |-> outcome = "session", accessToken |-> "token"]

getGitHubAuthHeaders(outcome) ==
    LET session == getGitHubSession(outcome) IN
    IF session.has
    THEN [h \in {"Authorization"} |-> "Bearer token"]
    ELSE NoHeaders

\* The global fetch: the request goes out as given.
fetch(u, headers) == [url |-> u, headers |-> headers]

fetchWithGitHubAuth(u, headers, outcome) ==
    fetch(u, mergeHeaders(getGitHubAuthHeaders(outcome), headers))

\* Faulty variant: every host under github.com counts as GitHub.
isGitHubUrlAnySubdomain(u) ==
    /\ u.valid
    /\ u.hostname \in {"github.com", "www.github.com", "raw.githubusercontent.com",
                       "api.github.com", "gist.github.com"}

isGitHubUrl(u) ==
    /\ u.valid
    /\ u.hostname \in {"github.com", "www.github.com", "raw.githubusercontent.com",
                       "api.github.com"}

authenticatedFetch(u, headers, outcome) ==
    IF isGitHubUrl(u)
    THEN fetchWithGitHubAuth(u, headers, outcome)
    ELSE fetch(u, headers)

Host(hostname) == Url("https:", hostname, <<Seg("acme", ""), Seg("skills", "")>>, FALSE)
\* Where a manifest, a candidate or an item descriptor may be hosted.
AnyHost ==
    { Host("github.com"), Host("www.github.com"), Host("raw.githubusercontent.com"),
      Host("api.github.com"), Host("gist.github.com"), Host("example.com") }
ApiHost == { Host("api.github.com") }
RawHost == { Host("raw.githubusercontent.com") }

\* The places of the program that issue a GET: the function, the fetch
\* function it calls, the headers it passes and the hosts it may address.
Site(name, via, headers, hosts) ==
    [name |-> name, via |-> via, headers |-> headers, urls |-> hosts]
Sites ==
    { Site("resolveMarketplaceUrl", "authenticatedFetch", NoHeaders, AnyHost),
      Site("listRepoDirectory", "authenticatedFetch", ApiHeaders, ApiHost),
      Site("fetchPluginSourceConfig", "authenticatedFetch", NoHeaders, RawHost),
      Site("fetchMarketplace", "authenticatedFetch", NoHeaders, AnyHost),
      Site("fetchGroupItemDescription", "authenticatedFetch", NoHeaders, AnyHost),
      Site("fetchGroupItemContent", "authenticatedFetch", NoHeaders, AnyHost),
      Site("fetchGitHubPathContents", "fetch", ApiHeaders, ApiHost),
      Site("downloadRawFile", "fetch", NoHeaders, RawHost \cup {Host("example.com")}),
      Site("fetchRawText", "fetch", NoHeaders, RawHost \cup {Host("example.com")}) }

\* A request as it reaches the network, with the place that issued it and
\* how the session provider answered ("notAsked": it was not consulted).
Request(site, sent, session) ==
    [site |-> site.name, via |-> site.via, url |-> sent.url,
     headers |-> sent.headers, session |-> session]

\* A place that calls authenticatedFetch issues its GET.
AuthenticatedFetch(site, u, outcome) ==
    /\ Cardinality(network) < MaxRequests
    /\ site.via = "authenticatedFetch"
    /\ u \in site.urls
    /\ network' = network \cup
          {Request(site, authenticatedFetch(u, site.headers, outcome),
                   IF isGitHubUrl(u) THEN outcome ELSE "notAsked")}
    /\ cachedSession' = IF isGitHubUrl(u) THEN outcome = "session" ELSE cachedSession
    /\ UNCHANGED notWireVars

\* A place that calls the global fetch issues its GET.
Fetch(site, u) ==
    /\ Cardinality(network) < MaxRequests
    /\ site.via = "fetch"
    /\ u \in site.urls
    /\ network' = network \cup {Request(site, fetch(u, site.headers), "notAsked")}
    /\ UNCHANGED cachedSession
    /\ UNCHANGED notWireVars

WireIdle ==
    /\ network = {}
    /\ cachedSession = FALSE

\* No executeInstall call has been made: an empty target, no settings.
NoInstallResult == [returned |-> FALSE, success |-> FALSE, error |-> ""]
NoPayload == [scope |-> "", targetPath |-> <<>>, plugins |-> <<>>]
NoHost == [remote |-> [api |-> FALSE, raw |-> "down"], folders |-> FALSE,
           writable |-> FALSE]
InstallIdle ==
    /\ host = NoHost
    /\ installPc = "idle"
    /\ installs = 0
    /\ installPayload = NoPayload
    /\ tasks = <<>>
    /\ files = EmptyMap
    /\ dirs = {}
    /\ settings = [skills |-> EmptyMap, agents |-> EmptyMap]
    /\ lastOperation = [workspace |-> NoInstallResult, user |-> NoInstallResult]
    /\ installResult = NoInstallResult
    /\ firstRun = [taken |-> FALSE, files |-> EmptyMap, dirs |-> {},
                   settings |-> [skills |-> EmptyMap, agents |-> EmptyMap]]

\* The provider as constructed, the view about to ask for the root.
TreeIdle ==
    /\ marketplaceUrls = <<>>
    /\ loading = FALSE
    /\ loadUrls = <<>>
    /\ marketplaces = <<>>
    /\ viewDirty = TRUE
    /\ shown = <<>>
    /\ treeLast = "activate"

\* What a fetchGroupItemDescription or fetchGroupItemContent call returns:
\* for the description, whether a summary was found and the summary; for the
\* content, whether content and url are set, and their values.
NoItemResult == [found |-> FALSE, text |-> "", url |-> ""]

ItemIdle ==
    /\ itemPc = "idle"
    /\ itemOp = ""
    /\ itemUrls = <<>>
    /\ itemCursor = 0
    /\ itemRequested = <<>>
    /\ itemAnswers = <<>>
    /\ itemResult = NoItemResult

AllIdle ==
    /\ allPc = "idle"
    /\ urls = <<>>
    /\ pipelines = <<>>
    /\ settledOrder = <<>>
    /\ aggregate = NoResult

ResolveIdle ==
    /\ pc = "idle"
    /\ sourceUrl = NoUrl
    /\ candidates = <<>>
    /\ cursor = 0
    /\ issued = <<>>
    /\ answers = <<>>
    /\ warnings = <<>>
    /\ resolution = NoResolution
    /\ result = NoResult
    /\ documentAnswer = ""
    /\ json = NoDocument
    /\ normalized = NoResult
    /\ hydration = ""
    /\ hydratedPlugins = <<>>
    /\ walk = NoWalk
    /\ hydrationRequests = <<>>
    /\ hydrationAnswers = <<>>

CacheIdle ==
    /\ now = 0
    /\ globalState = [has |-> FALSE, value |-> EmptyMap]
    /\ memoryCache = EmptyMap
    /\ pendingRefreshes = EmptyMap
    /\ fetches = EmptyMap
    /\ invoked = 0
    /\ last = NoLast

\* Faulty variant of FetchMarketplace: the probes of all candidates are issued at once.
FetchMarketplaceProbesAll(u) ==
    /\ pc = "idle"
    /\ sourceUrl' = u
    /\ candidates' = candidateMarketplaceUrls(u)
    /\ cursor' = 1
    /\ issued' = candidates'
    /\ pc' = "probing"
    /\ UNCHANGED <<answers, warnings, resolution, result>>
    /\ UNCHANGED <<documentAnswer, json, normalized, hydration>>
    /\ UNCHANGED hydrateVars
    /\ UNCHANGED notResolveVars

\* fetchMarketplace(sourceUrl) up to its first await: resolveMarketplaceUrl
\* computes the candidates and issues the GET for the first of them.
FetchMarketplace(u) ==
    /\ pc = "idle"
    /\ sourceUrl' = u
    /\ candidates' = candidateMarketplaceUrls(u)
    /\ cursor' = 1
    /\ issued' = <<candidates'[1]>>
    /\ pc' = "probing"
    /\ UNCHANGED <<answers, warnings, resolution, result>>
    /\ UNCHANGED <<documentAnswer, json, normalized, hydration>>
    /\ UNCHANGED hydrateVars
    /\ UNCHANGED notResolveVars

\* The GET of the candidate under the cursor is answered. A 2xx ends the
\* resolution and fetchMarketplace requests the document; anything else is
\* recorded as a warning and the loop moves on, or, after the last
\* candidate, the resolution fails and fetchMarketplace returns.
ProbeAnswers(outcome) ==
    /\ pc = "probing"
    /\ answers' = Append(answers, outcome)
    /\ IF ~probeFailed(outcome)
       THEN /\ resolution' = resolvedAt(candidates[cursor])
            /\ pc' = "fetching"
            /\ UNCHANGED <<cursor, issued, warnings, result>>
       ELSE /\ warnings' = Append(warnings, candidateWarning(outcome, candidates[cursor]))
            /\ IF cursor < Len(candidates)
               THEN /\ cursor' = cursor + 1
                    /\ issued' = Append(issued, candidates[cursor + 1])
                    /\ UNCHANGED <<pc, resolution, result>>
               ELSE /\ resolution' = unresolved(warnings', sourceUrl)
                    /\ result' = [plugins |-> <<>>,
                                  warnings |-> resolution'.warnings,
                                  errors |-> resolution'.errors]
                    /\ pc' = "done"
                    /\ UNCHANGED <<cursor, issued>>
    /\ UNCHANGED <<sourceUrl, candidates>>
    /\ UNCHANGED <<documentAnswer, json, normalized, hydration>>
    /\ UNCHANGED hydrateVars
    /\ UNCHANGED notResolveVars

failedToFetch(url) == [kind |-> "Failed to fetch", url |-> url]

\* How the GET of the resolved document may fail: a response that is not
\* 2xx, a network error, a body response.json() throws on.
DocumentFailures == {"notOk", "throw", "invalidJson"}

\* Faulty variant: a body that is not JSON is let through as an exception.
fetchFailedRethrowsParse(kind, res) ==
    IF kind = "invalidJson"
    THEN [threw |-> TRUE, value |-> NoResult]
    ELSE [threw |-> FALSE,
          value |-> [plugins |-> <<>>,
                     warnings |-> res.warnings,
                     errors |-> <<failedToFetch(res.documentUrl)>>]]

\* What fetchMarketplace does when the document cannot be had: the !response.ok
\* return and the catch block both return a result.
fetchFailed(kind, res) ==
    [threw |-> FALSE,
     value |-> [plugins |-> <<>>,
                warnings |-> res.warnings,
                errors |-> <<failedToFetch(res.documentUrl)>>]]

\* The GET of the resolved document is answered with a response that is not
\* 2xx, or fetch or response.json() throws.
DocumentFails(kind) ==
    /\ pc = "fetching"
    /\ documentAnswer' = kind
    /\ result' = fetchFailed(kind, resolution).value
    /\ pc' = IF fetchFailed(kind, resolution).threw THEN "threw" ELSE "done"
    /\ UNCHANGED <<sourceUrl, candidates, cursor, issued, answers, warnings, resolution>>
    /\ UNCHANGED <<json, normalized, hydration>>
    /\ UNCHANGED hydrateVars
    /\ UNCHANGED notResolveVars

(***************************************************************************)
(* marketplace.ts: hydration (fetchPluginSourceConfig, listRepoDirectory,  *)
(* expandGroupDirectoryReference, resolveGroupItemsFromConfig,             *)
(* hydratePluginGroupsFromSource)                                          *)
(***************************************************************************)
\* How a GET of hydration may be answered: a response that is not 2xx, a
\* network error, a 2xx whose body is not JSON, a 2xx with a JSON body.
Answer(kind, payload) == [kind |-> kind, payload |-> payload]
HydrationFailures ==
    { Answer("notOk", JUndefined), Answer("throw", JUndefined),
      Answer("invalidJson", JUndefined) }

\* asString(plugin.raw.source) ?? './'
sourceOf(plugin) ==
    firstText(asStringText(valueAt(plugin.raw, "source")), Text("", "./", <<>>, 0))

\* normalizeRelativePath(source).replace(/\/+$/, '')
sourceBasePath(plugin) == stripTrailingSlashes(normalizeRelativePath(sourceOf(plugin)))

\* Faulty variant: the bare plugin.json is tried first.
pluginConfigFilesBareFirst ==
    << <<Seg("plugin", ".json")>>,
       <<Seg(".claude-plugin", ""), Seg("plugin", ".json")>>,
       <<Seg(".github", ""), Seg("plugin", ""), Seg("plugin", ".json")>> >>

pluginConfigFiles ==
    << <<Seg(".claude-plugin", ""), Seg("plugin", ".json")>>,
       <<Seg(".github", ""), Seg("plugin", ""), Seg("plugin", ".json")>>,
       <<Seg("plugin", ".json")>> >>

\* The candidates of fetchPluginSourceConfig, in the order they are tried.
sourceConfigCandidates(sourcePath, repoContext) ==
    LET basePath == stripTrailingSlashes(normalizeRelativePath(sourcePath)) IN
    [i \in 1..Len(pluginConfigFiles) |->
        appendSegments(repoContext.rawBaseUrl,
                       (IF basePath # EmptyText THEN segmentsOf(basePath) ELSE <<>>)
                           \o pluginConfigFiles[i])]

\* What one candidate of fetchPluginSourceConfig yields: the decoded object,
\* or undefined (the loop continues).
configOf(answer) ==
    IF answer.kind = "json" /\ asRecord(answer.payload)
    THEN answer.payload
    ELSE JUndefined

\* encodeURIComponent on the segments of this model.
encodeURIComponent(s) ==
    CASE s = "https:" -> "https%3A"
      [] s = "HTTPS:" -> "HTTPS%3A"
      [] OTHER -> s

\* encodePath: the non-empty pieces between slashes, each encoded.
encodePath(t) ==
    LET pieces == (IF t.scheme # "" THEN <<Seg(t.scheme, "")>> ELSE <<>>) \o
                  (IF t.lead = "./" THEN <<Seg(".", "")>> ELSE <<>>) \o t.parts
    IN  [i \in 1..Len(pieces) |->
            Seg(encodeURIComponent(pieces[i].name), pieces[i].ext)]

\* The GET of listRepoDirectory.
listingRequest(repoContext, relativePath) ==
    [kind |-> "listing",
     url |-> Url("https:", "api.github.com",
                 <<Seg("repos", ""), repoContext.owner, repoContext.repo,
                   Seg("contents", "")>> \o encodePath(relativePath),
                 FALSE),
     ref |-> repoContext.branch]

\* What listRepoDirectory returns for the answer to its GET: the entries that
\* are objects, or undefined.
listRepoDirectory(answer) ==
    IF answer.kind # "json"
    THEN [defined |-> FALSE, entries |-> <<>>]
    ELSE IF answer.payload.kind # "array"
    THEN [defined |-> FALSE, entries |-> <<>>]
    ELSE [defined |-> TRUE,
          entries |-> SelectSeq(answer.payload.list, asRecord)]

\* The path expandGroupDirectoryReference lists ("": it returns undefined
\* without a request).
expandPath(referencePath) == stripTrailingSlashes(normalizeRelativePath(referencePath))

\* An item of expandGroupDirectoryReference: built from the path of the
\* directory entry, named by the entry.
expandedItem(cleanedPath, entry, groupKey, repoContext) ==
    [buildItemFromPath(joinPath(cleanedPath, valueAt(entry, "name").text), groupKey,
                       repoContext)
        EXCEPT !.name = valueAt(entry, "name").text]

\* Faulty variant: the files of the listing are taken along with the
\* directories.
expandEntriesWithFiles(cleanedPath, listing, groupKey, repoContext) ==
    LET entries == SelectSeq(listing.entries,
                       LAMBDA entry : valueAt(entry, "name").kind = "string")
    IN  [i \in 1..Len(entries) |->
            expandedItem(cleanedPath, entries[i], groupKey, repoContext)]

\* Faulty variant: the markdown files are preferred to the directories.
expandEntriesFilesFirst(cleanedPath, listing, groupKey, repoContext) ==
    LET directoryEntries ==
            SelectSeq(listing.entries,
                LAMBDA entry : /\ valueAt(entry, "type") = JString(Word("dir"))
                               /\ valueAt(entry, "name").kind = "string")
        markdownFiles ==
            SelectSeq(listing.entries,
                LAMBDA entry : /\ valueAt(entry, "type") = JString(Word("file"))
                               /\ valueAt(entry, "name").kind = "string"
                               /\ isMarkdownPath(valueAt(entry, "name").text))
    IN  IF ~listing.defined \/ listing.entries = <<>>
        THEN <<>>
        ELSE IF Len(markdownFiles) > 0
        THEN [i \in 1..Len(markdownFiles) |->
                expandedItem(cleanedPath, markdownFiles[i], groupKey, repoContext)]
        ELSE [i \in 1..Len(directoryEntries) |->
                expandedItem(cleanedPath, directoryEntries[i], groupKey, repoContext)]

\* expandGroupDirectoryReference after the listing: an item per directory,
\* else an item per markdown file, else undefined (here the empty sequence:
\* every caller treats the two alike).
expandEntries(cleanedPath, listing, groupKey, repoContext) ==
    LET directoryEntries ==
            SelectSeq(listing.entries,
                LAMBDA entry : /\ valueAt(entry, "type") = JString(Word("dir"))
                               /\ valueAt(entry, "name").kind = "string")
        markdownFiles ==
            SelectSeq(listing.entries,
                LAMBDA entry : /\ valueAt(entry, "type") = JString(Word("file"))
                               /\ valueAt(entry, "name").kind = "string"
                               /\ isMarkdownPath(valueAt(entry, "name").text))
    IN  IF ~listing.defined \/ listing.entries = <<>>
        THEN <<>>
        ELSE IF Len(directoryEntries) > 0
        THEN [i \in 1..Len(directoryEntries) |->
                expandedItem(cleanedPath, directoryEntries[i], groupKey, repoContext)]
        ELSE [i \in 1..Len(markdownFiles) |->
                expandedItem(cleanedPath, markdownFiles[i], groupKey, repoContext)]

\* resolvePath of resolveGroupItemsFromConfig
resolvePath(pathValue, base) ==
    IF isHttpUrl(pathValue) \/ base = EmptyText
    THEN pathValue
    ELSE LET normalizedPath == normalizeRelativePath(pathValue)
             normalizedBase == stripTrailingSlashes(normalizeRelativePath(base))
         IN  IF normalizedBase # EmptyText
             THEN joinPath(normalizedBase, normalizedPath)
             ELSE normalizedPath

\* What the array loop of resolveGroupItemsFromConfig makes of an object: an
\* item from its resolved path, source or url, named by the object; or an
\* item with a name only; or nothing.
resolveRecordItem(record, base, groupKey, repoContext) ==
    LET pathValue == firstText(asStringText(valueAt(record, "path")),
                       firstText(asStringText(valueAt(record, "source")),
                                 asStringText(valueAt(record, "url"))))
    IN  IF pathValue.defined
        THEN describedBy(record,
                         buildItemFromPath(resolvePath(pathValue, base), groupKey,
                                           repoContext))
        ELSE IF ~summaryFromRecord(record).defined
        THEN NoGroupItem
        ELSE MarketplaceGroupItem(summaryFromRecord(record), NoText, NoUrl, <<>>, NoUrl,
                                  asStringText(valueAt(record, "description")))

\* sourceConfig?.[key] ?? manifest?.[key]
groupValueOf(sourceConfig, key) ==
    LET manifest == IF asRecord(sourceConfig) THEN valueAt(sourceConfig, "manifest")
                    ELSE JUndefined
    IN  orElse(IF asRecord(sourceConfig) THEN valueAt(sourceConfig, key) ELSE JUndefined,
               IF asRecord(manifest) THEN valueAt(manifest, key) ELSE JUndefined)

\* Faulty variant: a group is pushed for a category without items too.
pushGroupKeepingEmpty(groups, definition, items) ==
    Append(groups, [name |-> definition.name, key |-> definition.key,
                    items |-> items])

\* if (items.length > 0) hydratedGroups.push({name, key, items})
pushGroup(groups, definition, items) ==
    IF Len(items) > 0
    THEN Append(groups, [name |-> definition.name, key |-> definition.key,
                         items |-> items])
    ELSE groups

\* if (item) items.push(item)
pushItem(items, item) ==
    IF item # NoGroupItem THEN Append(items, item) ELSE items

\* The loop over the group definitions from w.group on, and the loop of
\* resolveGroupItemsFromConfig over an array value from w.entry on, up to the
\* next listing or to the end of the group loop.
RECURSIVE walkGroups(_, _, _)
RECURSIVE walkArray(_, _, _)
walkGroups(w, base, repoContext) ==
    IF w.group > Len(groupDefinitions)
    THEN [w EXCEPT !.stage = "finished"]
    ELSE LET definition == groupDefinitions[w.group]
             groupValue == groupValueOf(w.sourceConfig, definition.key)
             conventionPath == IF base # EmptyText
                               THEN joinPath(base, Word(definition.key))
                               ELSE Word(definition.key)
         IN  IF groupValue.kind = "undefined"
             THEN IF expandPath(conventionPath) = EmptyText
                  THEN walkGroups([w EXCEPT !.group = @ + 1], base, repoContext)
                  ELSE [w EXCEPT !.stage = "discover",
                                 !.path = expandPath(conventionPath)]
             ELSE IF groupValue.kind = "string"
             THEN LET resolvedPath == resolvePath(groupValue.text, base) IN
                  IF expandPath(resolvedPath) = EmptyText
                  THEN walkGroups(
                          [w EXCEPT !.group = @ + 1,
                                    !.hydratedGroups =
                                        pushGroup(@, definition,
                                            <<buildItemFromPath(resolvedPath,
                                                  definition.key, repoContext)>>)],
                          base, repoContext)
                  ELSE [w EXCEPT !.stage = "string",
                                 !.path = expandPath(resolvedPath),
                                 !.resolved = resolvedPath]
             ELSE IF groupValue.kind = "array"
             THEN walkArray([w EXCEPT !.entry = 1, !.items = <<>>], base, repoContext)
             ELSE walkGroups(
                     [w EXCEPT !.group = @ + 1,
                               !.hydratedGroups =
                                   pushGroup(@, definition,
                                       toGroupItems(groupValue, definition.key,
                                                    repoContext))],
                     base, repoContext)
walkArray(w, base, repoContext) ==
    LET definition == groupDefinitions[w.group]
        list == groupValueOf(w.sourceConfig, definition.key).list
    IN  IF w.entry > Len(list)
        THEN walkGroups([w EXCEPT !.group = @ + 1, !.entry = 0, !.items = <<>>,
                                  !.hydratedGroups = pushGroup(@, definition, w.items)],
                        base, repoContext)
        ELSE IF list[w.entry].kind = "string"
        THEN LET resolvedPath == resolvePath(list[w.entry].text, base) IN
             IF expandPath(resolvedPath) = EmptyText
             THEN walkArray([w EXCEPT !.entry = @ + 1,
                                      !.items = Append(@,
                                          buildItemFromPath(resolvedPath, definition.key,
                                                            repoContext))],
                            base, repoContext)
             ELSE [w EXCEPT !.stage = "array", !.path = expandPath(resolvedPath),
                            !.resolved = resolvedPath]
        ELSE walkArray([w EXCEPT !.entry = @ + 1,
                                 !.items = pushItem(@,
                                     IF asRecord(list[w.entry])
                                     THEN resolveRecordItem(list[w.entry], base,
                                                            definition.key, repoContext)
                                     ELSE NoGroupItem)],
                       base, repoContext)

\* expanded.length > 0 ? expanded : [buildItemFromPath(resolvedPath, ...)]
orSingle(expanded, w, repoContext) ==
    IF Len(expanded) > 0 THEN expanded
    ELSE <<buildItemFromPath(w.resolved, groupDefinitions[w.group].key, repoContext)>>

\* The continuation of the await the walk is suspended at, the answer being
\* a sub-manifest or the expanded entries of a listing.
resumeWith(w, answer, expanded, base, repoContext) ==
    LET definition == groupDefinitions[w.group]
    IN  CASE w.stage = "config" ->
                IF configOf(answer) # JUndefined
                THEN walkGroups([w EXCEPT !.sourceConfig = configOf(answer)],
                                base, repoContext)
                ELSE IF w.candidate < Len(pluginConfigFiles)
                THEN [w EXCEPT !.candidate = @ + 1]
                ELSE walkGroups(w, base, repoContext)
          [] w.stage = "discover" ->
                walkGroups([w EXCEPT !.group = @ + 1, !.path = NoText,
                                     !.hydratedGroups = pushGroup(@, definition, expanded)],
                           base, repoContext)
          [] w.stage = "string" ->
                walkGroups([w EXCEPT !.group = @ + 1, !.path = NoText,
                                     !.resolved = NoText,
                                     !.hydratedGroups =
                                         pushGroup(@, definition,
                                                   orSingle(expanded, w, repoContext))],
                           base, repoContext)
          [] w.stage = "array" ->
                walkArray([w EXCEPT !.entry = @ + 1, !.path = NoText,
                                    !.resolved = NoText,
                                    !.items = @ \o orSingle(expanded, w, repoContext)],
                          base, repoContext)

resume(w, answer, base, repoContext) ==
    resumeWith(w, answer,
               expandEntries(w.path, listRepoDirectory(answer),
                             groupDefinitions[w.group].key, repoContext),
               base, repoContext)

\* The GET the walk is suspended at.
requestOf(w, plugin, repoContext) ==
    IF w.stage = "config"
    THEN [kind |-> "config",
          url |-> sourceConfigCandidates(sourceOf(plugin), repoContext)[w.candidate],
          ref |-> repoContext.branch]
    ELSE listingRequest(repoContext, w.path)

\* What hydratePluginGroupsFromSource returns at the end of its group loop.
hydratedPlugin(plugin, w) ==
    IF Len(w.hydratedGroups) = 0
    THEN plugin
    ELSE [plugin EXCEPT !.groups = w.hydratedGroups]

\* Faulty variant: a plugin that has groups is hydrated all the same.
skipsHydrationOnlyWithoutRepository(plugin, repoContext) == ~repoContext.defined

\* if (!repoContext || plugin.groups.length > 0) return plugin
skipsHydration(plugin, repoContext) ==
    ~repoContext.defined \/ Len(plugin.groups) > 0

\* The loop of fetchMarketplace over normalized.plugins from the first plugin
\* not hydrated yet: hydratePluginGroupsFromSource returns a plugin that has
\* groups as it is, and issues the first GET for the first plugin without.
RECURSIVE hydrateNext(_, _, _)
hydrateNext(plugins, hydrated, repoContext) ==
    IF Len(hydrated) = Len(plugins)
    THEN [hydratedPlugins |-> hydrated, walk |-> NoWalk]
    ELSE LET plugin == plugins[Len(hydrated) + 1] IN
         IF skipsHydration(plugin, repoContext)
         THEN hydrateNext(plugins, Append(hydrated, plugin), repoContext)
         ELSE [hydratedPlugins |-> hydrated, walk |-> startWalk]

\* What is kept of an answer: that the GET failed (no 2xx response with a
\* JSON body), or the decoded body.
answered(answer) ==
    [failed |-> answer.kind # "json",
     payload |-> IF answer.kind = "json" THEN answer.payload ELSE JUndefined]

\* normalized.warnings.unshift(...resolution.warnings); return normalized
withResolutionWarnings(n, res) ==
    [n EXCEPT !.warnings = res.warnings \o n.warnings]

\* The GET of the resolved document is answered with a 2xx and a JSON body:
\* the document is normalized; for a repository-backed manifest with plugins
\* the hydration loop starts (it passes over the plugins that have groups
\* and issues the first GET for the first plugin without), otherwise the
\* call returns.
DocumentArrives(d) ==
    /\ pc = "fetching"
    /\ documentAnswer' = "json"
    /\ json' = d
    /\ LET repoContext == repoContextFromDocumentUrl(resolution.documentUrl)
           next == hydrateNext(normalized'.plugins, <<>>, repoContext)
       IN  /\ normalized' = normalizeMarketplaceDocument(d, sourceUrl,
                                resolution.documentUrl, repoContext)
           /\ IF repoContext.defined /\ Len(normalized'.plugins) > 0
              THEN /\ pc' = "hydrating"
                   /\ hydratedPlugins' = next.hydratedPlugins
                   /\ walk' = next.walk
                   /\ hydrationRequests' =
                         IF next.walk.stage = "none" THEN <<>>
                         ELSE <<requestOf(next.walk,
                                    normalized'.plugins[Len(next.hydratedPlugins) + 1],
                                    repoContext)>>
                   /\ UNCHANGED <<result, hydration, hydrationAnswers>>
              ELSE /\ pc' = "done"
                   /\ hydration' = "skipped"
                   /\ result' = withResolutionWarnings(normalized', resolution)
                   /\ UNCHANGED hydrateVars
    /\ UNCHANGED <<sourceUrl, candidates, cursor, issued, answers, warnings, resolution>>
    /\ UNCHANGED notResolveVars

\* The GET hydratePluginGroupsFromSource is suspended at is answered: the
\* function goes on to its next GET, or returns the plugin, and then the loop
\* of fetchMarketplace goes on to the next plugin without groups.
HydrationResponds(answer) ==
    /\ pc = "hydrating"
    /\ walk.stage # "none"
    /\ hydrationAnswers' = Append(hydrationAnswers, answered(answer))
    /\ \E repoContext \in {repoContextFromDocumentUrl(resolution.documentUrl)},
          plugin \in {normalized.plugins[Len(hydratedPlugins) + 1]} :
       \E resumed \in {resume(walk, answer, sourceBasePath(plugin), repoContext)} :
       \E next \in {hydrateNext(normalized.plugins,
                                Append(hydratedPlugins, hydratedPlugin(plugin, resumed)),
                                repoContext)} :
           IF resumed.stage # "finished"
           THEN /\ walk' = resumed
                /\ hydrationRequests' =
                      Append(hydrationRequests, requestOf(resumed, plugin, repoContext))
                /\ UNCHANGED hydratedPlugins
           ELSE /\ hydratedPlugins' = next.hydratedPlugins
                /\ walk' = next.walk
                /\ hydrationRequests' =
                      IF next.walk.stage = "none" THEN hydrationRequests
                      ELSE Append(hydrationRequests,
                               requestOf(next.walk,
                                   normalized.plugins[Len(next.hydratedPlugins) + 1],
                                   repoContext))
    /\ UNCHANGED <<sourceUrl, candidates, cursor, issued, answers, warnings, resolution>>
    /\ UNCHANGED <<result, documentAnswer, json, normalized, hydration, pc>>
    /\ UNCHANGED notResolveVars

\* hydratePluginGroupsFromSource has returned for every plugin:
\* normalized.plugins = hydratedPlugins, and the call returns.
HydrationCompletes ==
    /\ pc = "hydrating"
    /\ walk.stage = "none"
    /\ hydration' = "completed"
    /\ normalized' = [normalized EXCEPT !.plugins = hydratedPlugins]
    /\ result' = withResolutionWarnings(normalized', resolution)
    /\ pc' = "done"
    /\ UNCHANGED <<sourceUrl, candidates, cursor, issued, answers, warnings, resolution>>
    /\ UNCHANGED <<documentAnswer, json>>
    /\ UNCHANGED hydrateVars
    /\ UNCHANGED notResolveVars

\* hydratePluginGroupsFromSource throws (encodeURIComponent on a path that is
\* not well-formed UTF-16, outside listRepoDirectory's try): the catch block
\* of fetchMarketplace returns.
HydrationThrows ==
    /\ pc = "hydrating"
    /\ walk.stage \notin {"none", "config"}
    /\ hydration' = "throws"
    /\ result' = fetchFailed("throw", resolution).value
    /\ pc' = IF fetchFailed("throw", resolution).threw THEN "threw" ELSE "done"
    /\ UNCHANGED <<sourceUrl, candidates, cursor, issued, answers, warnings, resolution>>
    /\ UNCHANGED <<documentAnswer, json, normalized>>
    /\ UNCHANGED hydrateVars
    /\ UNCHANGED notResolveVars

InitResolve == CacheIdle /\ ResolveIdle /\ WireIdle /\ AllIdle /\ ItemIdle /\ InstallIdle
                   /\ TreeIdle

NextResolve ==
    \/ \E u \in Inputs : FetchMarketplace(u)
    \/ \E outcome \in ProbeOutcomes : ProbeAnswers(outcome)
    \/ \E kind \in DocumentFailures : DocumentFails(kind)
    \/ \E d \in Documents : DocumentArrives(d)
    \/ \E answer \in HydrationFailures : HydrationResponds(answer)
    \/ HydrationCompletes
    \/ HydrationThrows

SpecResolve == InitResolve /\ [][NextResolve]_vars

(***************************************************************************)
(* The manifests, sub-manifests and directory listings of the hydration    *)
(* model.                                                                  *)
(***************************************************************************)
NamedItem(name) == JObject(<<"name">>, [name |-> JString(Word(name))])
DescribedItem(name, description) ==
    JObject(<<"name", "description">>,
            [name |-> JString(Word(name)), description |-> JString(Word(description))])

\* A plugin entry that declares its categories inline: skills as an array
\* (a path, an object with a name only, an object with path, name and
\* description, a number, an object without name, an https URL), agents as a
\* map, tools as a single string, prompts as a number, and a nested manifest
\* with skills and commands.
InlineEntry ==
    PluginEntry(EntryA, <<"skills", "agents", "tools", "prompts", "manifest">>,
        [skills |->
            JArray(<< JString(Path(<<Seg("skills", ""), Seg("summarize", "")>>)),
                      NamedItem("Summarize"),
                      JObject(<<"path", "name", "description">>,
                              [path |-> JString(Text("", "./",
                                            <<Seg("docs", ""), Seg("notes", ".MD")>>, 0)),
                               name |-> JString(Word(" c ")),
                               description |-> JString(Word("Meeting notes"))]),
                      JNumber,
                      JObject(<<"title">>, [title |-> JString(Word("  "))]),
                      JString(Text("HTTPS:", "",
                                   <<Seg("example.com", ""), Seg("x", ".md")>>, 0)) >>),
         agents |->
            JObject(<<"triage", "reviewer">>,
                    [triage |-> JString(Word("triage-agent")), reviewer |-> JNumber]),
         tools |-> JString(Text("", "", <<Seg("tools", "")>>, 1)),
         prompts |-> JNumber,
         manifest |->
            JObject(<<"skills", "commands">>,
                    [skills |-> JArray(<< DescribedItem("SUMMARIZE", "Summarises text"),
                                          NamedItem("extra"),
                                          NamedItem("c") >>),
                     commands |-> JArray(<< DescribedItem("build", "Builds") >>)])])

\* The entry of the repository's normalizer test: skills [{name: 'summarize'}],
\* agents ['triage-agent'].
TestEntry ==
    PluginEntry(EntryB, <<"skills", "agents">>,
        [skills |-> JArray(<<NamedItem("summarize")>>),
         agents |-> JArray(<<JString(Word("triage-agent"))>>)])

\* An entry without categories whose source is "./plugins/alpha/".
SourcedEntry ==
    PluginEntry(EntryC, <<"source">>,
        [source |-> JString(Text("", "./", <<Seg("plugins", ""), Seg("alpha", "")>>, 1))])

\* An entry whose only category is the single string "skills/" and whose
\* source is an object.
StringEntry ==
    PluginEntry(EntryB, <<"source", "skills">>,
        [source |-> JObject(<<>>, <<>>),
         skills |-> JString(Text("", "", <<Seg("skills", "")>>, 1))])

\* An entry whose categories are present and empty.
EmptyEntry ==
    PluginEntry(EntryA2, <<"skills", "agents", "manifest">>,
        [skills |-> JArray(<<>>), agents |-> JObject(<<>>, <<>>), manifest |-> JNull])

GroupDocuments ==
    { Document("array", <<InlineEntry>>, NotArr, NotArr, NotArr),
      Document("object", <<>>, Arr(<<TestEntry, EntryA>>), NotArr, NotArr),
      Document("array", <<SourcedEntry>>, NotArr, NotArr, NotArr),
      Document("array", <<StringEntry, NoIdentity>>, NotArr, NotArr, NotArr),
      Document("object", <<>>, NotArr, Arr(<<EmptyEntry>>), NotArr) }

\* A manifest in a repository (hydration applies) and one hosted elsewhere.
HydrateInputs ==
    { RawUrl(Seg("acme", ""), Seg("skills", ""),
             <<Seg("main", ""), Seg("marketplace", ".json")>>),
      Url("https:", "example.com", <<Seg("catalog", ""), Seg("marketplace", ".json")>>,
          FALSE) }

\* Sub-manifests (plugin.json): one with skills as a single string and agents
\* as an array of paths and objects; one with skills null at the top level
\* and listed under manifest, tools as a map and commands as a blank string.
ConfigStrings ==
    JObject(<<"name", "skills", "agents">>,
        [name |-> JString(Word("alpha")),
         skills |-> JString(Text("", "./", <<Seg("skills", "")>>, 1)),
         agents |->
            JArray(<< JString(Path(<<Seg("agents", ""), Seg("triage", ".md")>>)),
                      JString(Word("agents")),
                      JObject(<<"path", "name">>,
                              [path |-> JString(Text("", "/", <<Seg("reviewer", "")>>, 0)),
                               name |-> JString(Word("Reviewer"))]),
                      NamedItem("planner"),
                      JNumber >>)])
ConfigManifest ==
    JObject(<<"skills", "manifest", "tools", "commands">>,
        [skills |-> JNull,
         manifest |-> JObject(<<"skills">>,
                        [skills |-> JArray(<<DescribedItem("summarize", "Summarises text")>>)]),
         tools |-> JObject(<<"lint">>,
                      [lint |-> JString(Path(<<Seg("tools", ""), Seg("lint", "")>>))]),
         commands |-> JString(Word("  "))])
ConfigPayloads == { JArray(<<>>), ConfigStrings, ConfigManifest }

\* Directory listings of the GitHub contents API.
DirectoryEntry(type, name) ==
    JObject(<<"type", "name">>, [type |-> JString(Word(type)), name |-> JString(name)])
TwoDirectories ==
    JArray(<< DirectoryEntry("dir", Word("summarize")),
              DirectoryEntry("file", Path(<<Seg("README", ".md")>>)),
              JNumber,
              DirectoryEntry("dir", Word("translate")) >>)
MarkdownFiles ==
    JArray(<< DirectoryEntry("file", Path(<<Seg("triage", ".md")>>)),
              DirectoryEntry("file", Path(<<Seg("logo", ".png")>>)),
              DirectoryEntry("file", Path(<<Seg("NOTES", ".MD")>>)) >>)
ListingPayloads ==
    { JObject(<<>>, <<>>), JArray(<<>>), TwoDirectories, MarkdownFiles,
      JArray(<<DirectoryEntry("file", Path(<<Seg("logo", ".png")>>))>>) }

\* How the repository may answer a GET of hydration: a sub-manifest
\* candidate with a failure or one of the sub-manifests; the listing of a
\* skills or agents directory with a failure or one of the listings; any
\* other listing with a failure.
RepositoryAnswers(request) ==
    IF request.kind = "config"
    THEN HydrationFailures \cup {Answer("json", payload) : payload \in ConfigPayloads}
    ELSE IF request.url.parts[Len(request.url.parts)] \in {Seg("skills", ""), Seg("agents", "")}
    THEN HydrationFailures \cup {Answer("json", payload) : payload \in ListingPayloads}
    ELSE HydrationFailures

\* One fetchMarketplace call on a manifest whose entries declare
\* categories, against a repository that answers the GETs of hydration.
NextHydrate ==
    \/ \E u \in HydrateInputs : FetchMarketplace(u)
    \/ \E outcome \in ProbeOutcomes : ProbeAnswers(outcome)
    \/ \E kind \in DocumentFailures : DocumentFails(kind)
    \/ \E d \in GroupDocuments : DocumentArrives(d)
    \/ /\ hydrationRequests # <<>>
       /\ \E answer \in RepositoryAnswers(hydrationRequests[Len(hydrationRequests)]) :
             HydrationResponds(answer)
    \/ HydrationCompletes
    \/ HydrationThrows

SpecHydrate == InitResolve /\ [][NextHydrate]_vars

(***************************************************************************)
(* marketplace.ts: fetchAllMarketplaces                                    *)
(***************************************************************************)
\* What the network holds for one fetchMarketplace call: whether the first
\* candidate answers with a 2xx or every candidate with another status, how
\* the GET of the document fails ("": it does not), and the document.
World(probes, failure, d) == [probes |-> probes, failure |-> failure, document |-> d]
Worlds ==
    { World("allFail", "", NoDocument),
      World("firstOk", "notOk", NoDocument),
      World("firstOk", "", Document("array", <<EntryA>>, NotArr, NotArr, NotArr)),
      World("firstOk", "", Document("array", <<EntryScoped>>, NotArr, NotArr, NotArr)),
      World("firstOk", "",
            Document("object", <<>>,
                     Arr(<<EntryB, NoIdentity, NonObject("string"), EntryA, EntryA2>>),
                     NotArr, NotArr)),
      World("firstOk", "",
            Document("object", <<>>, NotArr, Arr(<<EntryC, NonObject("array")>>),
                     Arr(<<EntryA>>))) }

\* The value one fetchMarketplace(u) call fulfils with in a world (the
\* hydration of its plugins completes).
fetchMarketplace(u, world) ==
    LET cands == candidateMarketplaceUrls(u) IN
    IF world.probes = "allFail"
    THEN LET res == unresolved([i \in 1..Len(cands) |->
                                    candidateWarning("notOk", cands[i])], u)
         IN  [plugins |-> <<>>, warnings |-> res.warnings, errors |-> res.errors]
    ELSE LET res == resolvedAt(cands[1]) IN
         IF world.failure # ""
         THEN fetchFailed(world.failure, res).value
         ELSE withResolutionWarnings(
                  normalizeMarketplaceDocument(world.document, u, res.documentUrl,
                      repoContextFromDocumentUrl(res.documentUrl)), res)

\* The URLs of the setting agentPlugins.marketplaceUrls.
\* The third is https://mirror.example/p::https://example.com/catalog/marketplace.json:
\* its pathname has an empty segment, written out here for urlText.
ConfiguredUrls ==
    { Url("https:", "github.com", <<Seg("acme", ""), Seg("skills", "")>>, FALSE),
      Url("https:", "example.com", <<Seg("catalog", ""), Seg("marketplace", ".json")>>, FALSE),
      Url("https:", "mirror.example",
          <<Seg("p::https:", ""), Seg("", ""), Seg("example", ".com"), Seg("catalog", ""),
            Seg("marketplace", ".json")>>, FALSE) }
RECURSIVE SeqsUpTo(_, _)
SeqsUpTo(S, n) ==
    IF n = 0 THEN {<<>>}
    ELSE SeqsUpTo(S, n - 1) \cup
         {Append(q, x) : q \in {r \in SeqsUpTo(S, n - 1) : Len(r) = n - 1}, x \in S}
UrlLists == SeqsUpTo(ConfiguredUrls, MaxUrls)

Running == [status |-> "running", value |-> NoResult, reason |-> ""]
Fulfilled(value) == [status |-> "fulfilled", value |-> value, reason |-> ""]

\* String.prototype.localeCompare on the plugin names of the model, as the
\* position of the name in collation order.
CollationRank(name) ==
    CASE name = "Another A" -> 1
      [] name = "b" -> 2
      [] name = "c" -> 3
      [] name = "Plugin A" -> 4
      [] OTHER -> 0
localeCompare(left, right) == CollationRank(left) - CollationRank(right)

\* Array.prototype.sort with (left, right) => left.name.localeCompare(right.name):
\* a stable sort.
RECURSIVE insertByName(_, _)
insertByName(sorted, plugin) ==
    IF sorted = <<>>
    THEN <<plugin>>
    ELSE IF localeCompare(plugin.name, sorted[Len(sorted)].name) >= 0
    THEN Append(sorted, plugin)
    ELSE Append(insertByName(SubSeq(sorted, 1, Len(sorted) - 1), plugin),
                sorted[Len(sorted)])
RECURSIVE sortByName(_)
sortByName(plugins) ==
    IF plugins = <<>>
    THEN <<>>
    ELSE insertByName(sortByName(SubSeq(plugins, 1, Len(plugins) - 1)),
                      plugins[Len(plugins)])

\* The text of a URL of the model: the string new URL() was given.
RECURSIVE pathText(_)
pathText(parts) ==
    IF parts = <<>>
    THEN ""
    ELSE "/" \o Head(parts).name \o Head(parts).ext \o pathText(Tail(parts))
urlText(u) ==
    IF ~u.valid
    THEN pathText(u.parts)
    ELSE u.protocol \o "//" \o u.hostname \o pathText(u.parts)
             \o (IF u.slash THEN "/" ELSE "")

\* `${plugin.id}::${plugin.sourceUrl}`
pluginKey(plugin) == plugin.id \o "::" \o urlText(plugin.sourceUrl)

\* new Map(plugins.map((plugin) => [pluginKey(plugin), plugin])): under each
\* key the last plugin that has it.
createPluginKeyMap(plugins) ==
    [key \in {pluginKey(plugins[i]) : i \in DOMAIN plugins} |->
        plugins[CHOOSE i \in DOMAIN plugins :
                   /\ pluginKey(plugins[i]) = key
                   /\ \A j \in DOMAIN plugins : pluginKey(plugins[j]) = key => j <= i]]

\* Faulty variant: a later plugin replaces an earlier one of the same key.
RECURSIVE dedupeLastWins(_)
dedupeLastWins(plugins) ==
    IF plugins = <<>>
    THEN <<>>
    ELSE LET rest == dedupeLastWins(SubSeq(plugins, 1, Len(plugins) - 1))
             p == plugins[Len(plugins)]
         IN  IF \E i \in 1..Len(rest) : pluginKey(rest[i]) = pluginKey(p)
             THEN [i \in 1..Len(rest) |->
                      IF pluginKey(rest[i]) = pluginKey(p) THEN p ELSE rest[i]]
             ELSE Append(rest, p)

\* The Map deduped, as the sequence of its values: the first plugin of each
\* key, in insertion order.
RECURSIVE dedupe(_)
dedupe(plugins) ==
    IF plugins = <<>>
    THEN <<>>
    ELSE LET rest == dedupe(SubSeq(plugins, 1, Len(plugins) - 1))
             p == plugins[Len(plugins)]
         IN  IF \E i \in 1..Len(rest) : pluginKey(rest[i]) = pluginKey(p)
             THEN rest
             ELSE Append(rest, p)

\* The loop over the results of Promise.allSettled.
RECURSIVE collect(_, _)
collect(results, acc) ==
    IF results = <<>>
    THEN acc
    ELSE LET r == Head(results) IN
         collect(Tail(results),
            IF r.status = "fulfilled"
            THEN [plugins |-> acc.plugins \o r.value.plugins,
                  warnings |-> acc.warnings \o r.value.warnings,
                  errors |-> acc.errors \o r.value.errors]
            ELSE [acc EXCEPT !.errors =
                     Append(acc.errors, [kind |-> "Marketplace fetch failed",
                                         url |-> NoUrl])])

\* Faulty variant: a marketplace that reported an error empties the aggregate.
mergeResultsAllOrNothing(results) ==
    LET collected == collect(results, NoResult) IN
    IF collected.errors # <<>>
    THEN [plugins |-> <<>>, warnings |-> <<>>, errors |-> collected.errors]
    ELSE [collected EXCEPT !.plugins = sortByName(dedupe(collected.plugins))]

\* fetchAllMarketplaces after the await: collect, deduplicate, sort.
mergeResults(results) ==
    LET collected == collect(results, NoResult) IN
    [collected EXCEPT !.plugins = sortByName(dedupe(collected.plugins))]

\* Faulty variant: the results are taken in the order the promises settled.
allSettledInSettlingOrder(ps, order) == [i \in 1..Len(order) |-> ps[order[i]]]

\* Promise.allSettled: the results in the order of the promises given.
allSettled(ps, order) == ps

\* fetchAllMarketplaces(urls) up to its await: urls.map calls fetchMarketplace
\* for every URL, each running to its first await.
FetchAllMarketplaces(us) ==
    /\ allPc = "idle"
    /\ urls' = us
    /\ pipelines' = [i \in 1..Len(us) |-> Running]
    /\ allPc' = "waiting"
    /\ UNCHANGED <<settledOrder, aggregate>>
    /\ UNCHANGED notAllVars

\* The fetchMarketplace call of the i-th URL returns.
PipelineSettles(i, world) ==
    /\ allPc = "waiting"
    /\ i \in DOMAIN pipelines
    /\ pipelines[i].status = "running"
    /\ pipelines' = [pipelines EXCEPT ![i] = Fulfilled(fetchMarketplace(urls[i], world))]
    /\ settledOrder' = Append(settledOrder, i)
    /\ UNCHANGED <<allPc, urls, aggregate>>
    /\ UNCHANGED notAllVars

\* Every promise has settled: the await ends and the call returns the merge.
AllSettled ==
    /\ allPc = "waiting"
    /\ \A i \in DOMAIN pipelines : pipelines[i].status # "running"
    /\ aggregate' = mergeResults(allSettled(pipelines, settledOrder))
    /\ allPc' = "done"
    /\ UNCHANGED <<urls, pipelines, settledOrder>>
    /\ UNCHANGED notAllVars

InitAll == CacheIdle /\ ResolveIdle /\ WireIdle /\ AllIdle /\ ItemIdle /\ InstallIdle
                   /\ TreeIdle

NextAll ==
    \/ \E us \in UrlLists : FetchAllMarketplaces(us)
    \/ \E i \in 1..MaxUrls, world \in Worlds : PipelineSettles(i, world)
    \/ AllSettled

SpecAll == InitAll /\ [][NextAll]_vars

(***************************************************************************)
(* marketplace.ts: fetchGroupItemDescription, fetchGroupItemContent        *)
(***************************************************************************)
\* A group item, by the fields the two functions read ("": no metadataUrl).
Item(metadataUrl, metadataFallbackUrls) ==
    [metadataUrl |-> metadataUrl, metadataFallbackUrls |-> metadataFallbackUrls]
Items ==
    { Item("", <<>>),
      Item("x/SKILL.md", <<>>),
      Item("x/SKILL.md", <<"x/README.md">>),
      Item("y/AGENT.md", <<"y/AGENTS.md", "y/README.md">>) }

\* Faulty variant: the fallbacks are tried before the metadataUrl.
descriptorUrlsFallbacksFirst(item) ==
    SelectSeq(item.metadataFallbackUrls \o <<item.metadataUrl>>, LAMBDA u : u # "")

\* [item.metadataUrl, ...item.metadataFallbackUrls].filter(Boolean)
descriptorUrls(item) ==
    SelectSeq(<<item.metadataUrl>> \o item.metadataFallbackUrls, LAMBDA u : u # "")

\* A markdown body, by what extractDescriptorSummary reads of it: the
\* description or summary of its front matter and its first line of text
\* ("": none).
Body(frontMatter, firstLine) == [frontMatter |-> frontMatter, firstLine |-> firstLine]
Bodies == { Body("Summarises text", "Usage"), Body("", "Reviews code"), Body("", "") }

\* extractDescriptorSummary: the front matter's description, else the first
\* line of text, else undefined ("").
extractDescriptorSummary(body) ==
    IF body.frontMatter # "" THEN body.frontMatter ELSE body.firstLine

\* How the GET of a descriptor may be answered: a response that is not 2xx, a
\* network error, a 2xx whose body cannot be read, a 2xx with a body.
ItemAnswer(kind, body) == [kind |-> kind, body |-> body]
ItemAnswerSet ==
    { ItemAnswer("notOk", Body("", "")), ItemAnswer("throw", Body("", "")),
      ItemAnswer("textThrows", Body("", "")) }
    \cup { ItemAnswer("ok", b) : b \in Bodies }

\* Whether the answer ends the loop, and with what.
itemYield(op, answer, url) ==
    IF answer.kind # "ok"
    THEN [returns |-> FALSE, value |-> NoItemResult]
    ELSE IF op = "fetchGroupItemContent"
    THEN [returns |-> TRUE,
          value |-> [found |-> TRUE, text |-> answer.body.firstLine, url |-> url]]
    ELSE IF extractDescriptorSummary(answer.body) # ""
    THEN [returns |-> TRUE,
          value |-> [found |-> TRUE, text |-> extractDescriptorSummary(answer.body),
                     url |-> ""]]
    ELSE [returns |-> FALSE, value |-> NoItemResult]

\* The call up to its first await: the GET of the first URL is issued, or,
\* without URLs, the call returns.
FetchGroupItem(op, item) ==
    /\ itemPc = "idle"
    /\ itemOp' = op
    /\ itemUrls' = descriptorUrls(item)
    /\ IF itemUrls' = <<>>
       THEN /\ itemPc' = "done"
            /\ UNCHANGED <<itemCursor, itemRequested>>
       ELSE /\ itemPc' = "requesting"
            /\ itemCursor' = 1
            /\ itemRequested' = <<itemUrls'[1]>>
    /\ UNCHANGED <<itemAnswers, itemResult>>
    /\ UNCHANGED notItemVars

\* The GET of the URL under the cursor is answered: the call returns what the
\* answer yields, or moves to the next URL, or returns empty after the last.
ItemResponds(answer) ==
    /\ itemPc = "requesting"
    /\ itemAnswers' = Append(itemAnswers, answer)
    /\ LET yield == itemYield(itemOp, answer, itemUrls[itemCursor]) IN
       IF yield.returns
       THEN /\ itemResult' = yield.value
            /\ itemPc' = "done"
            /\ UNCHANGED <<itemCursor, itemRequested>>
       ELSE IF itemCursor < Len(itemUrls)
       THEN /\ itemCursor' = itemCursor + 1
            /\ itemRequested' = Append(itemRequested, itemUrls[itemCursor + 1])
            /\ UNCHANGED <<itemPc, itemResult>>
       ELSE /\ itemPc' = "done"
            /\ UNCHANGED <<itemCursor, itemRequested, itemResult>>
    /\ UNCHANGED <<itemOp, itemUrls>>
    /\ UNCHANGED notItemVars

NextItem ==
    \/ \E op \in {"fetchGroupItemDescription", "fetchGroupItemContent"}, item \in Items :
          FetchGroupItem(op, item)
    \/ \E answer \in ItemAnswerSet : ItemResponds(answer)

\* The exported fetch operations, one call at a time.
NoCallActive == pc = "idle" /\ allPc = "idle" /\ itemPc = "idle"

InitExported == CacheIdle /\ ResolveIdle /\ WireIdle /\ AllIdle /\ ItemIdle /\ InstallIdle
                   /\ TreeIdle

NextExported ==
    \/ NoCallActive /\ \E u \in Inputs : FetchMarketplace(u)
    \/ \E outcome \in ProbeOutcomes : ProbeAnswers(outcome)
    \/ \E kind \in DocumentFailures : DocumentFails(kind)
    \/ \E d \in Documents : DocumentArrives(d)
    \/ \E answer \in HydrationFailures : HydrationResponds(answer)
    \/ HydrationCompletes
    \/ HydrationThrows
    \/ NoCallActive /\ \E us \in UrlLists : FetchAllMarketplaces(us)
    \/ \E i \in 1..MaxUrls, world \in Worlds : PipelineSettles(i, world)
    \/ AllSettled
    \/ NoCallActive /\
          \E op \in {"fetchGroupItemDescription", "fetchGroupItemContent"}, item \in Items :
             FetchGroupItem(op, item)
    \/ \E answer \in ItemAnswerSet : ItemResponds(answer)

SpecExported == InitExported /\ [][NextExported]_vars

InitWire == CacheIdle /\ ResolveIdle /\ WireIdle /\ AllIdle /\ ItemIdle /\ InstallIdle
                   /\ TreeIdle

NextWire ==
    \/ \E site \in Sites, u \in AnyHost, outcome \in SessionOutcomes :
          AuthenticatedFetch(site, u, outcome)
    \/ \E site \in Sites, u \in AnyHost : Fetch(site, u)

SpecWire == InitWire /\ [][NextWire]_vars

\* A first activation: nothing stored, the constructor loads nothing.
Init ==
    /\ now = 0
    /\ globalState = [has |-> FALSE, value |-> EmptyMap]
    /\ memoryCache = loadFromStorage(globalState, now)
    /\ pendingRefreshes = EmptyMap
    /\ fetches = EmptyMap
    /\ invoked = 0
    /\ last = [NoLast EXCEPT !.op = "construct"]
    /\ ResolveIdle
    /\ WireIdle
    /\ AllIdle
    /\ ItemIdle
    /\ InstallIdle
    /\ TreeIdle

\* The refresh protocol is per key: the callers of Spec share one key, those
\* of SpecPersist use both.
Next ==
    \/ Tick
    \/ \E k \in RefreshKeys : Get(k)
    \/ \E k \in RefreshKeys, d \in Data : Set(k, d, Undefined)
    \/ \E k \in RefreshKeys : Clear(k)
    \/ ClearAll
    \/ \E k \in RefreshKeys, force \in BOOLEAN : GetWithRefresh(k, force)
    \/ \E k \in RefreshKeys : RefreshInBackground(k)
    \/ \E id \in 1..MaxFetches, d \in Data : FetcherResolves(id, d)
    \/ \E id \in 1..MaxFetches : FetcherRejects(id)
    \/ \E id \in 1..MaxFetches : RefreshFinally(id)

Spec == Init /\ [][Next]_vars

\* Promise callbacks are microtasks: the finally callback of a settled refresh
\* runs before the event loop takes anything else.
FairSpec == Spec /\ \A id \in 1..MaxFetches : WF_vars(RefreshFinally(id))

\* Persistence alone: the calls that mutate the map, the clock, and restarts.
NextPersist ==
    \/ Tick
    \/ \E k \in Keys : Get(k)
    \/ \E k \in Keys, d \in Data, e \in Etags : Set(k, d, e)
    \/ \E k \in Keys : Clear(k)
    \/ ClearAll
    \/ Restart

SpecPersist == Init /\ [][NextPersist]_vars

(***************************************************************************)
(* The installer: executeInstall and the helpers that copy the skills and  *)
(* agents of the selected plugins from their repository to the target.     *)
(* A path on disk is the sequence of its segments; the content of a file   *)
(* is the URL it was downloaded from, or the text generated for it.        *)
(***************************************************************************)
\* value.toLowerCase().replace(/[^a-z0-9._-]+/g, '-').replace(/^-+|-+$/g, ''),
\* or 'unknown', on the strings of this model.
Sanitized(s) ==
    CASE s = "" -> "unknown"
      [] s = "  " -> "unknown"
      [] s = "Code Review" -> "code-review"
      [] s = "Lint" -> "lint"
      [] s = "Broken" -> "broken"
      [] s = "Plugin A" -> "plugin-a"
      [] s = "Plugin B" -> "plugin-b"
      [] OTHER -> LowerCase(s)

\* sanitizePathSegment on a name without slashes.
sanitizePathSegment(t) ==
    IF t.parts = <<>>
    THEN Seg("unknown", "")
    ELSE Seg(Sanitized(t.parts[1].name), LowerCase(t.parts[1].ext))

\* getMarketplaceName(sourceUrl)
getMarketplaceName(u) ==
    LET named == SelectSeq(u.parts,
                     LAMBDA seg : ~(LowerCase(seg.name) = "marketplace"
                                    /\ LowerCase(seg.ext) = ".json"))
        lastNamed == named[Len(named)]
    IN  IF ~u.valid
        THEN Seg(Sanitized(u.parts[1].name), "")
        ELSE IF u.hostname \in {"github.com", "api.github.com"} /\ Len(u.parts) >= 2
        THEN Seg(Sanitized(StripGit(u.parts[2]).name), LowerCase(StripGit(u.parts[2]).ext))
        ELSE IF named # <<>>
        THEN Seg(Sanitized(lastNamed.name),
                 IF LowerCase(lastNamed.ext) = ".json" THEN "" ELSE LowerCase(lastNamed.ext))
        ELSE Seg("marketplace", "")

\* getPluginName: sanitizePathSegment(plugin.name || plugin.id)
getPluginName(plugin) ==
    Seg(Sanitized(IF plugin.name # "" THEN plugin.name ELSE plugin.id), "")

\* The installer's normalizeRelativePath, as the segments left: without a
\* leading "./" or "/" and without trailing slashes ("" has none).
installerRelativePath(t) ==
    IF t.lead = "./" /\ t.parts = <<>> THEN <<Seg(".", "")>> ELSE t.parts

\* getRepoContext(plugin): the owner, repository and branch of a document
\* served by raw.githubusercontent.com.
getRepoContext(plugin) ==
    IF hasRepoContext(plugin.marketplaceDocumentUrl)
    THEN repoContextFromDocumentUrl(plugin.marketplaceDocumentUrl)
    ELSE NoRepoContext

\* `${repoContext.rawBaseUrl}/${record.path}`
rawUrlOf(repoContext, pathValue) ==
    appendSegments(repoContext.rawBaseUrl, segmentsOf(pathValue))

(***************************************************************************)
(* The remote: what the repositories hold, and which requests fail.        *)
(***************************************************************************)
ContentEntry(type, name, pathValue) ==
    JObject(<<"type", "name", "path">>,
            [type |-> JString(Word(type)), name |-> JString(Path(<<name>>)),
             path |-> JString(Path(pathValue))])

SummarizePath == <<Seg("skills", ""), Seg("summarize", "")>>
TriagePath == <<Seg("agents", ""), Seg("triage", ".md")>>
ReviewerPath == <<Seg("agents", ""), Seg("reviewer", "")>>

\* The body the contents API answers with for a path of a repository
\* (undefined: 404).
RepositoryContents(repoContext, parts) ==
    CASE repoContext.owner = Seg("acme", "") /\ parts = SummarizePath ->
            JArray(<< ContentEntry("file", Seg("SKILL", ".md"),
                                   SummarizePath \o <<Seg("SKILL", ".md")>>),
                      JObject(<<"name">>, [name |-> JString(Word("broken"))]),
                      ContentEntry("dir", Seg("refs", ""),
                                   SummarizePath \o <<Seg("refs", "")>>) >>)
      [] repoContext.owner = Seg("acme", "")
            /\ parts = SummarizePath \o <<Seg("refs", "")>> ->
            JArray(<< ContentEntry("file", Seg("notes", ".txt"),
                                   SummarizePath \o <<Seg("refs", ""), Seg("notes", ".txt")>>) >>)
      [] repoContext.owner = Seg("acme", "") /\ parts = TriagePath ->
            ContentEntry("file", Seg("triage", ".md"), TriagePath)
      [] repoContext.owner = Seg("beta", "") /\ parts = SummarizePath ->
            JArray(<< ContentEntry("file", Seg("SKILL", ".md"),
                                   SummarizePath \o <<Seg("SKILL", ".md")>>) >>)
      [] repoContext.owner = Seg("beta", "") /\ parts = ReviewerPath ->
            JArray(<< ContentEntry("file", Seg("logo", ".png"),
                                   ReviewerPath \o <<Seg("logo", ".png")>>),
                      ContentEntry("file", Seg("Readme", ".MD"),
                                   ReviewerPath \o <<Seg("Readme", ".MD")>>) >>)
      [] OTHER -> JUndefined

AcmeContext ==
    repoContextFromDocumentUrl(
        RawUrl(Seg("acme", ""), Seg("skills", ""),
               <<Seg("main", ""), Seg("marketplace", ".json")>>))
BetaContext ==
    repoContextFromDocumentUrl(
        RawUrl(Seg("beta", ""), Seg("tools", ""),
               <<Seg("main", ""), Seg("marketplace", ".json")>>))

\* The files the raw host serves.
ServedFiles ==
    { rawUrlOf(AcmeContext, Path(SummarizePath \o <<Seg("SKILL", ".md")>>)),
      rawUrlOf(AcmeContext,
               Path(SummarizePath \o <<Seg("refs", ""), Seg("notes", ".txt")>>)),
      rawUrlOf(AcmeContext, Path(TriagePath)),
      rawUrlOf(BetaContext, Path(SummarizePath \o <<Seg("SKILL", ".md")>>)),
      rawUrlOf(BetaContext, Path(ReviewerPath \o <<Seg("logo", ".png")>>)),
      rawUrlOf(BetaContext, Path(ReviewerPath \o <<Seg("Readme", ".MD")>>)),
      Url("https:", "example.com", <<Seg("docs", ""), Seg("lint", ".md")>>, FALSE) }

\* The downloads that fail when the raw host is partly out.
PartialOutage ==
    { rawUrlOf(AcmeContext,
               Path(SummarizePath \o <<Seg("refs", ""), Seg("notes", ".txt")>>)),
      rawUrlOf(BetaContext, Path(ReviewerPath \o <<Seg("Readme", ".MD")>>)) }

\* A remote: whether the contents API answers, and which downloads succeed.
Remote(api, raw) == [api |-> api, raw |-> raw]
Remotes == { Remote(TRUE, "up"), Remote(TRUE, "partial"), Remote(FALSE, "up"),
             Remote(FALSE, "down") }

\* fetchGitHubPathContents: the decoded body, or undefined for a response
\* that is not ok and for a rejected fetch.
fetchGitHubPathContents(remote, repoContext, parts) ==
    IF remote.api THEN RepositoryContents(repoContext, parts) ELSE JUndefined

\* Whether fetch(rawUrl) is answered with a 2xx.
answersRaw(remote, u) ==
    /\ u \in ServedFiles
    /\ \/ remote.raw = "up"
       \/ remote.raw = "partial" /\ u \notin PartialOutage

(***************************************************************************)
(* What one item's install writes.                                         *)
(***************************************************************************)
\* The content of a file: the URL its bytes were downloaded from, or the
\* heading and body of the text generated from an item's description.
Downloaded(u) == [from |-> u, heading |-> NoText, body |-> NoText]
Generated(item) == [from |-> NoUrl, heading |-> item.name, body |-> item.description]
NoContent == [from |-> NoUrl, heading |-> NoText, body |-> NoText]

\* What a copy has done: whether a file was copied, and the files written,
\* in order.
Copied(copied, writes) == [copied |-> copied, writes |-> writes]
Write(target, content) == [path |-> target, content |-> content]

\* A string property of a directory entry that is set and not empty.
truthy(value) == value.kind = "string" /\ value.text # EmptyText

\* downloadRawFile: the file is written when the GET is answered with a 2xx;
\* a failure returns false.
downloadRawFile(remote, u, target) ==
    IF answersRaw(remote, u)
    THEN Copied(TRUE, <<Write(target, Downloaded(u))>>)
    ELSE Copied(FALSE, <<>>)

\* copiedAny = (await ...) || copiedAny, after the writes made so far
andCopied(done, entryCopied) ==
    Copied(done.copied \/ entryCopied.copied, done.writes \o entryCopied.writes)

\* copyGithubEntryTree, and its loop over the entries of a directory from
\* the given entries on.
RECURSIVE copyGithubEntryTree(_, _, _, _)
RECURSIVE copyContents(_, _, _, _)
RECURSIVE copyEntries(_, _, _, _, _)
copyGithubEntryTree(remote, repoContext, parts, target) ==
    copyContents(remote, repoContext,
                 fetchGitHubPathContents(remote, repoContext, parts), target)
\* copyGithubEntryTree once fetchGitHubPathContents has returned the contents.
copyContents(remote, repoContext, contents, target) ==
    IF contents.kind \in {"undefined", "null"}
    THEN Copied(FALSE, <<>>)
    ELSE IF contents.kind = "array"
    THEN copyEntries(remote, repoContext, contents.list, target, Copied(FALSE, <<>>))
    ELSE IF contents.kind # "object"
    THEN Copied(FALSE, <<>>)
    ELSE IF valueAt(contents, "type") = JString(Word("file"))
            /\ truthy(valueAt(contents, "path"))
    THEN LET pathValue == valueAt(contents, "path").text IN
         downloadRawFile(remote, rawUrlOf(repoContext, pathValue),
                         Append(target, pathValue.parts[Len(pathValue.parts)]))
    ELSE IF valueAt(contents, "type") = JString(Word("dir"))
            /\ truthy(valueAt(contents, "path"))
    THEN copyGithubEntryTree(remote, repoContext,
                             valueAt(contents, "path").text.parts, target)
    ELSE Copied(FALSE, <<>>)
copyEntries(remote, repoContext, entries, target, done) ==
    IF entries = <<>>
    THEN done
    ELSE LET record == Head(entries)
             usable == /\ record.kind = "object"
                       /\ truthy(valueAt(record, "type"))
                       /\ truthy(valueAt(record, "path"))
                       /\ truthy(valueAt(record, "name"))
             type == valueAt(record, "type")
             child == Append(target, valueAt(record, "name").text.parts[1])
         IN  copyEntries(remote, repoContext, Tail(entries), target,
                andCopied(done,
                    IF ~usable
                    THEN Copied(FALSE, <<>>)
                    ELSE IF type = JString(Word("dir"))
                    THEN copyGithubEntryTree(remote, repoContext,
                                             valueAt(record, "path").text.parts, child)
                    ELSE IF type = JString(Word("file"))
                    THEN downloadRawFile(remote,
                             rawUrlOf(repoContext, valueAt(record, "path").text), child)
                    ELSE Copied(FALSE, <<>>)))

\* [item.metadataUrl, ...item.metadataFallbackUrls].filter(Boolean)
descriptorCandidates(item) ==
    SelectSeq(<<item.metadataUrl>> \o item.metadataFallbackUrls,
              LAMBDA u : u # NoUrl)

\* new URL(candidate) throws: the string is no URL, or has no host.
urlThrows(u) == ~u.valid \/ u.hostname = ""

\* path.basename(new URL(candidate).pathname) || 'descriptor.md'
descriptorFileName(u) ==
    IF u.parts = <<>> THEN Seg("descriptor", ".md") ELSE u.parts[Len(u.parts)]

\* What an install does after its mkdir: the files it writes, in order, and
\* whether its promise then rejects.
Plan(folder, writes, rejects) == [mkdir |-> folder, writes |-> writes, rejects |-> rejects]

\* fallbackDownloadItemDescriptor from the given candidates on: the first
\* candidate that downloads is written; a candidate that is no URL throws.
RECURSIVE fallbackDownloadItemDescriptor(_, _, _)
fallbackDownloadItemDescriptor(remote, urlsLeft, target) ==
    IF urlsLeft = <<>>
    THEN Plan(target, <<>>, FALSE)
    ELSE IF urlThrows(Head(urlsLeft))
    THEN Plan(target, <<>>, TRUE)
    ELSE IF answersRaw(remote, Head(urlsLeft))
    THEN Plan(target,
              downloadRawFile(remote, Head(urlsLeft),
                  Append(target, descriptorFileName(Head(urlsLeft)))).writes,
              FALSE)
    ELSE fallbackDownloadItemDescriptor(remote, Tail(urlsLeft), target)

\* item.path ? normalizeRelativePath(item.path) : undefined, as segments
\* (none: undefined or empty).
sourcePathOf(item) ==
    IF item.path = NoText \/ item.path = EmptyText THEN <<>>
    ELSE installerRelativePath(item.path)

\* The rest of installSkillItem once the copy of the item's tree is over:
\* if (!copied) await fallbackDownloadItemDescriptor(item, skillFolder)
skillCopied(remote, item, skillFolder, copy) ==
    IF copy.copied
    THEN Plan(skillFolder, copy.writes, FALSE)
    ELSE [fallbackDownloadItemDescriptor(remote, descriptorCandidates(item),
                                         skillFolder)
             EXCEPT !.writes = copy.writes \o @]

\* installSkillItem after fs.mkdir(skillFolder)
installSkillItem(remote, plugin, item, skillsRoot) ==
    LET skillFolder == Append(skillsRoot, sanitizePathSegment(item.name))
        repoContext == getRepoContext(plugin)
    IN  skillCopied(remote, item, skillFolder,
            IF repoContext.defined /\ sourcePathOf(item) # <<>>
            THEN copyGithubEntryTree(remote, repoContext, sourcePathOf(item),
                                     skillFolder)
            ELSE Copied(FALSE, <<>>))

\* fetchRawText(rawUrl) is defined and not empty.
fetchRawText(remote, u) == u.valid /\ answersRaw(remote, u)

\* getAgentText once the contents of the item's path are known (undefined
\* without a repository context or a path): the content found first, or
\* undefined.
agentTextFrom(remote, repoContext, contents, item) ==
    LET entries == IF contents.kind = "array"
                   THEN SelectSeq(contents.list, LAMBDA e : e.kind = "object")
                   ELSE <<>>
        isFile(e) == valueAt(e, "type") = JString(Word("file"))
        named(fileName) ==
            SelectSeq(entries,
                LAMBDA e : /\ isFile(e)
                           /\ valueAt(e, "name").kind = "string"
                           /\ toLowerCase(valueAt(e, "name").text)
                                 = toLowerCase(Path(<<fileName>>)))
        preferred == <<Seg("AGENT", ".md"), Seg("AGENTS", ".md"), Seg("README", ".md")>>
        matches == SelectSeq(preferred,
                       LAMBDA fileName :
                           /\ named(fileName) # <<>>
                           /\ truthy(valueAt(Head(named(fileName)), "path"))
                           /\ fetchRawText(remote,
                                 rawUrlOf(repoContext,
                                          valueAt(Head(named(fileName)), "path").text)))
        markdown == SelectSeq(entries,
                        LAMBDA e : /\ isFile(e)
                                   /\ truthy(valueAt(e, "path"))
                                   /\ isMarkdownPath(valueAt(e, "path").text))
        fetched == SelectSeq(descriptorCandidates(item),
                             LAMBDA u : fetchRawText(remote, u))
    IN  IF /\ contents.kind = "object"
           /\ isFile(contents)
           /\ truthy(valueAt(contents, "path"))
           /\ fetchRawText(remote, rawUrlOf(repoContext, valueAt(contents, "path").text))
        THEN Downloaded(rawUrlOf(repoContext, valueAt(contents, "path").text))
        ELSE IF matches # <<>>
        THEN Downloaded(rawUrlOf(repoContext,
                                 valueAt(Head(named(Head(matches))), "path").text))
        ELSE IF /\ markdown # <<>>
                /\ fetchRawText(remote,
                      rawUrlOf(repoContext, valueAt(Head(markdown), "path").text))
        THEN Downloaded(rawUrlOf(repoContext, valueAt(Head(markdown), "path").text))
        ELSE IF fetched # <<>>
        THEN Downloaded(Head(fetched))
        ELSE IF item.description # NoText
        THEN Generated(item)
        ELSE NoContent

getAgentText(remote, plugin, item) ==
    agentTextFrom(remote, getRepoContext(plugin),
        IF getRepoContext(plugin).defined /\ sourcePathOf(item) # <<>>
        THEN fetchGitHubPathContents(remote, getRepoContext(plugin), sourcePathOf(item))
        ELSE JUndefined,
        item)

\* `${fileBase}.agent.md`, where fileBase is sanitizePathSegment of
\* item.name.replace(/\.agent\.md$/i, '').replace(/\.md$/i, '')
agentFileName(item) ==
    LET base == IF item.name.parts = <<>> THEN Seg("", "") ELSE item.name.parts[1]
        stripped == IF LowerCase(base.ext) \in {".md", ".agent.md"}
                    THEN Seg(base.name, "") ELSE base
    IN  Seg(Sanitized(stripped.name),
            IF stripped.ext = "" THEN ".agent.md"
            ELSE LowerCase(stripped.ext) \o ".agent.md")

\* if (!content) return; await fs.writeFile(target, content, 'utf8')
agentWritten(agentsRoot, item, content) ==
    Plan(agentsRoot,
         IF content = NoContent THEN <<>>
         ELSE <<Write(Append(agentsRoot, agentFileName(item)), content)>>,
         FALSE)

\* installAgentItem after fs.mkdir(agentsRoot)
installAgentItem(remote, plugin, item, agentsRoot) ==
    agentWritten(agentsRoot, item, getAgentText(remote, plugin, item))

(***************************************************************************)
(* executeInstall                                                          *)
(***************************************************************************)
RECURSIVE Flatten(_)
Flatten(lists) ==
    IF lists = <<>> THEN <<>> ELSE Head(lists) \o Flatten(Tail(lists))

\* The install promises one plugin adds to installPromises: one per item of
\* its skills and agents groups, in the order of the groups and items.
pluginInstalls(remote, plugin, skillsRoot, agentsRoot) ==
    Flatten([g \in 1..Len(plugin.groups) |->
        LET group == plugin.groups[g] IN
        IF group.key = "skills"
        THEN [i \in 1..Len(group.items) |->
                 installSkillItem(remote, plugin, group.items[i], skillsRoot)]
        ELSE IF group.key = "agents"
        THEN [i \in 1..Len(group.items) |->
                 installAgentItem(remote, plugin, group.items[i], agentsRoot)]
        ELSE <<>>])

\* materializeLocalInstallStructure: installPromises
materializeLocalInstallStructure(remote, workspaceRoot, plugins) ==
    Flatten([p \in 1..Len(plugins) |->
        pluginInstalls(remote, plugins[p],
            workspaceRoot \o <<Seg(".agents", ""), Seg("skills", "")>>,
            workspaceRoot \o <<Seg(".github", ""), Seg("agents", "")>>)])

\* path.join(userRoot, getMarketplaceName(plugin.sourceUrl), getPluginName(plugin))
pluginRoot(userRoot, plugin) ==
    userRoot \o <<getMarketplaceName(plugin.sourceUrl), getPluginName(plugin)>>

\* The roots materializeUserInstallStructure adds to skillPaths (key
\* "skills") or agentPaths (key "agents"): those of the groups with items,
\* in insertion order.
RECURSIVE installedPaths(_, _, _, _)
installedPaths(userRoot, plugins, key, added) ==
    IF plugins = <<>>
    THEN added
    ELSE LET plugin == Head(plugins)
             filled == \E g \in 1..Len(plugin.groups) :
                          /\ plugin.groups[g].key = key
                          /\ Len(plugin.groups[g].items) > 0
         IN  installedPaths(userRoot, Tail(plugins), key,
                 IF filled
                 THEN SetAdd(added, Append(pluginRoot(userRoot, plugin), Seg(key, "")))
                 ELSE added)

\* materializeUserInstallStructure: installPromises
materializeUserInstallStructure(remote, userRoot, plugins) ==
    Flatten([p \in 1..Len(plugins) |->
        pluginInstalls(remote, plugins[p],
            Append(pluginRoot(userRoot, plugins[p]), Seg("skills", "")),
            Append(pluginRoot(userRoot, plugins[p]), Seg("agents", "")))])

\* os.homedir()
HomeDir == <<Seg("home", "")>>

\* toTildePath
toTildePath(absolutePath) ==
    IF Len(absolutePath) >= Len(HomeDir)
          /\ SubSeq(absolutePath, 1, Len(HomeDir)) = HomeDir
    THEN <<Seg("~", "")>> \o SubSeq(absolutePath, Len(HomeDir) + 1, Len(absolutePath))
    ELSE absolutePath

\* { ...existing } with merged[toTildePath(path)] = true for each path
mergedLocations(existing, paths) ==
    LET added == {toTildePath(paths[i]) : i \in 1..Len(paths)} IN
    [p \in DOMAIN existing \cup added |-> IF p \in added THEN TRUE ELSE existing[p]]

\* What an executeInstall call returned.
OperationResult(success, error) == [returned |-> TRUE, success |-> success, error |-> error]

\* A promise of installPromises: the call it belongs to, what it does, how
\* far it is (0: before its mkdir; k: k - 1 files written) and how it settled.
Task(call, plan) == [call |-> call, plan |-> plan, at |-> 0, status |-> "pending"]
started(call, plans) == [i \in 1..Len(plans) |-> Task(call, plans[i])]
CurrentTasks == {i \in 1..Len(tasks) : tasks[i].call = installs}

\* The synchronous start of executeInstall up to its first await: without a
\* workspace folder a workspace install returns at once; otherwise every
\* item's install is started.
StartInstall(scope, targetPath, plugins) ==
    /\ installPayload' = [scope |-> scope, targetPath |-> targetPath, plugins |-> plugins]
    /\ installs' = installs + 1
    /\ IF scope = "workspace" /\ ~host.folders
       THEN /\ installResult' =
                  OperationResult(FALSE,
                      "Open a workspace folder to install local skills and agents.")
            /\ installPc' = "returned"
            /\ UNCHANGED tasks
       ELSE /\ installResult' = NoInstallResult
            /\ installPc' = "materializing"
            /\ tasks' = tasks \o
                  started(installs + 1,
                          IF scope = "workspace"
                          THEN materializeLocalInstallStructure(host.remote,
                                   targetPath, plugins)
                          ELSE materializeUserInstallStructure(host.remote,
                                   targetPath, plugins))
    /\ UNCHANGED <<host, files, dirs, settings, lastOperation>>
    /\ UNCHANGED notInstallVars

\* executeInstall(context, plugins, payload), the first call.
ExecuteInstall(scope, targetPath, plugins) ==
    /\ installPc = "idle"
    /\ installs = 0
    /\ StartInstall(scope, targetPath, plugins)
    /\ UNCHANGED firstRun

\* executeInstall called again with the same plugins, scope and target path,
\* after the first call has returned and its installs have settled.
ExecuteInstallAgain ==
    /\ installPc = "returned"
    /\ installs = 1
    /\ \A i \in 1..Len(tasks) : tasks[i].status # "pending"
    /\ firstRun' = [taken |-> TRUE, files |-> files, dirs |-> dirs, settings |-> settings]
    /\ StartInstall(installPayload.scope, installPayload.targetPath, installPayload.plugins)

\* fs.mkdir(folder, {recursive: true}) of an install settles: the folder
\* exists, or the promise of the install rejects.
InstallMkdir(i) ==
    /\ i \in 1..Len(tasks)
    /\ tasks[i].status = "pending"
    /\ tasks[i].at = 0
    /\ IF host.writable
       THEN /\ dirs' = dirs \cup {tasks[i].plan.mkdir}
            /\ tasks' = [tasks EXCEPT ![i].at = 1]
       ELSE /\ tasks' = [tasks EXCEPT ![i].status = "rejected"]
            /\ UNCHANGED dirs
    /\ UNCHANGED <<host, installPc, installs, installPayload, files, settings,
                   lastOperation, installResult, firstRun>>
    /\ UNCHANGED notInstallVars

\* The next file of an install is written: fs.mkdir(path.dirname(target))
\* and fs.writeFile(target, ...).
InstallWrites(i) ==
    /\ i \in 1..Len(tasks)
    /\ tasks[i].status = "pending"
    /\ tasks[i].at \in 1..Len(tasks[i].plan.writes)
    /\ LET write == tasks[i].plan.writes[tasks[i].at] IN
          /\ files' = [p \in DOMAIN files \cup {write.path} |->
                          IF p = write.path THEN write.content ELSE files[p]]
          /\ dirs' = dirs \cup {SubSeq(write.path, 1, Len(write.path) - 1)}
    /\ tasks' = [tasks EXCEPT ![i].at = @ + 1]
    /\ UNCHANGED <<host, installPc, installs, installPayload, settings,
                   lastOperation, installResult, firstRun>>
    /\ UNCHANGED notInstallVars

\* An install has nothing left to do: its promise is fulfilled, or rejected
\* by the exception its last step threw.
InstallSettles(i) ==
    /\ i \in 1..Len(tasks)
    /\ tasks[i].status = "pending"
    /\ tasks[i].at = Len(tasks[i].plan.writes) + 1
    /\ tasks' = [tasks EXCEPT ![i].status =
                    IF tasks[i].plan.rejects THEN "rejected" ELSE "fulfilled"]
    /\ UNCHANGED <<host, installPc, installs, installPayload, files, dirs, settings,
                   lastOperation, installResult, firstRun>>
    /\ UNCHANGED notInstallVars

\* Faulty variant: the rejection of an install escapes executeInstall.
settledThrowing(rejected) ==
    IF rejected
    THEN [returned |-> FALSE, success |-> FALSE, error |-> "install failed"]
    ELSE OperationResult(TRUE, "")

\* What executeInstall returns once Promise.all(installPromises) settles:
\* {success: true}, or from its catch block {success: false, error}.
settled(rejected) ==
    IF rejected
    THEN OperationResult(FALSE, "install failed")
    ELSE OperationResult(TRUE, "")

\* persistLastOperation: the slot of the scope takes the result.
persistLastOperation(stored, scope, operationResult) ==
    [stored EXCEPT ![scope] = operationResult]

\* Promise.all(installPromises) is fulfilled: a user install records the
\* installed roots in the workspace settings (when a workspace folder is
\* open); the operation is persisted and executeInstall returns.
InstallSucceeds ==
    /\ installPc = "materializing"
    /\ \A i \in CurrentTasks : tasks[i].status = "fulfilled"
    /\ settings' =
          IF installPayload.scope = "user" /\ host.folders
          THEN [skills |-> mergedLocations(settings.skills,
                               installedPaths(installPayload.targetPath,
                                              installPayload.plugins, "skills", <<>>)),
                agents |-> mergedLocations(settings.agents,
                               installedPaths(installPayload.targetPath,
                                              installPayload.plugins, "agents", <<>>))]
          ELSE settings
    /\ installResult' = settled(FALSE)
    /\ lastOperation' = persistLastOperation(lastOperation, installPayload.scope,
                                             installResult')
    /\ installPc' = IF installResult'.returned THEN "returned" ELSE "threw"
    /\ UNCHANGED <<host, installs, installPayload, tasks, files, dirs, firstRun>>
    /\ UNCHANGED notInstallVars

\* Promise.all(installPromises) is rejected by the first install that
\* rejects: the catch block persists the failure and returns it. The other
\* installs go on.
InstallFails ==
    /\ installPc = "materializing"
    /\ \E i \in CurrentTasks : tasks[i].status = "rejected"
    /\ installResult' = settled(TRUE)
    /\ lastOperation' = persistLastOperation(lastOperation, installPayload.scope,
                                             OperationResult(FALSE, "install failed"))
    /\ installPc' = IF installResult'.returned THEN "returned" ELSE "threw"
    /\ UNCHANGED <<host, installs, installPayload, tasks, files, dirs, settings,
                   firstRun>>
    /\ UNCHANGED notInstallVars

(***************************************************************************)
(* The installs of the model.                                              *)
(***************************************************************************)
\* An item as buildGroupItem builds it from {name, path} of a manifest.
ManifestItem(name, pathValue, groupKey, repoContext) ==
    buildGroupItem(JObject(<<"name", "path">>,
                           [name |-> JString(name), path |-> JString(pathValue)]),
                   groupKey, repoContext)
Group(key, name, items) == [key |-> key, name |-> name, items |-> items]
Plugin(id, name, source, documentUrl, groups) ==
    [id |-> id, name |-> name, sourceUrl |-> source,
     marketplaceDocumentUrl |-> documentUrl, groups |-> groups]

\* A plugin of acme/skills: the skill "Summarize" (a directory with a file
\* and a subdirectory) and the agent "Triage" (a markdown file).
PluginAlpha ==
    Plugin("a", "Plugin A",
        Url("https:", "github.com", <<Seg("acme", ""), Seg("skills", "")>>, FALSE),
        RawUrl(Seg("acme", ""), Seg("skills", ""),
               <<Seg("main", ""), Seg("marketplace", ".json")>>),
        << Group("skills", "Skills",
               <<ManifestItem(Word("Summarize"), Path(SummarizePath), "skills",
                              AcmeContext)>>),
           Group("agents", "Agents",
               <<ManifestItem(Word("Triage"), Path(TriagePath), "agents",
                              AcmeContext)>>) >>)

\* A plugin of beta/tools: a skill and an agent of the same names, ignoring
\* case, as those of acme/skills.
PluginBeta ==
    Plugin("b", "Plugin B",
        Url("https:", "github.com", <<Seg("beta", ""), Seg("tools", ".git")>>, FALSE),
        RawUrl(Seg("beta", ""), Seg("tools", ""),
               <<Seg("main", ""), Seg("marketplace", ".json")>>),
        << Group("skills", "Skills",
               <<ManifestItem(Word("SUMMARIZE"),
                              Text("", "./", SummarizePath, 1), "skills", BetaContext)>>),
           Group("agents", "Agents",
               <<ManifestItem(Path(<<Seg("Triage", ".md")>>), Path(ReviewerPath),
                              "agents", BetaContext)>>),
           Group("tools", "Tools",
               <<ManifestItem(Word("lint"), Word("tools"), "tools", BetaContext)>>) >>)

\* A plugin of a manifest hosted outside GitHub: a skill given by the URL of
\* its descriptor, a skill whose URL is "https://", and an agent that has a
\* description only.
PluginLocal ==
    Plugin("c", "c",
        Url("https:", "example.com", <<Seg("catalog", ""), Seg("marketplace", ".json")>>,
            FALSE),
        Url("https:", "example.com", <<Seg("catalog", ""), Seg("marketplace", ".json")>>,
            FALSE),
        << Group("skills", "Skills",
               << ManifestItem(Word("Lint"),
                      Text("https:", "", <<Seg("example.com", ""), Seg("docs", ""),
                                           Seg("lint", ".md")>>, 0),
                      "skills", NoRepoContext),
                  ManifestItem(Word("Broken"), Text("https:", "", <<>>, 0),
                      "skills", NoRepoContext) >>),
           Group("agents", "Agents",
               << buildGroupItem(
                      JObject(<<"name", "description">>,
                              [name |-> JString(Word("Code Review")),
                               description |-> JString(Word("Reviews code"))]),
                      "agents", NoRepoContext) >>) >>)

InstallSelections ==
    { <<PluginAlpha>>, <<PluginAlpha, PluginBeta>>, <<PluginLocal, PluginAlpha>> }

\* resolveAgentsPath(scope): the first workspace folder, or
\* ~/.copilot/installed-plugins.
WorkspaceRoot == <<Seg("ws", "")>>
resolveAgentsPath(scope) ==
    IF scope = "user"
    THEN HomeDir \o <<Seg(".copilot", ""), Seg("installed-plugins", "")>>
    ELSE WorkspaceRoot

Hosts == [remote : Remotes, folders : BOOLEAN, writable : BOOLEAN]

\* The workspace has one location in chat.agentSkillsLocations, switched off.
InitialSettings ==
    [skills |-> [p \in {<<Seg("~", ""), Seg("custom", "")>>} |-> FALSE],
     agents |-> EmptyMap]

InitInstall ==
    /\ CacheIdle /\ ResolveIdle /\ WireIdle /\ AllIdle /\ ItemIdle /\ TreeIdle
    /\ host \in Hosts
    /\ installPc = "idle"
    /\ installs = 0
    /\ installPayload = NoPayload
    /\ tasks = <<>>
    /\ files = EmptyMap
    /\ dirs = {}
    /\ settings = InitialSettings
    /\ lastOperation = [workspace |-> NoInstallResult, user |-> NoInstallResult]
    /\ installResult = NoInstallResult
    /\ firstRun = [taken |-> FALSE, files |-> EmptyMap, dirs |-> {},
                   settings |-> InitialSettings]

NextInstall ==
    \/ \E scope \in {"workspace", "user"}, plugins \in InstallSelections :
          ExecuteInstall(scope, resolveAgentsPath(scope), plugins)
    \/ ExecuteInstallAgain
    \/ \E i \in 1..Len(tasks) : InstallMkdir(i)
    \/ \E i \in 1..Len(tasks) : InstallWrites(i)
    \/ \E i \in 1..Len(tasks) : InstallSettles(i)
    \/ InstallSucceeds
    \/ InstallFails

SpecInstall == InitInstall /\ [][NextInstall]_vars

(***************************************************************************)
(* The tree view: MarketplaceTreeDataProvider and what calls loadData      *)
(***************************************************************************)
\* The values of the setting: getMarketplaceUrls() returns a list without
\* duplicates.
TreeUrls == {"https://example.com/catalog/marketplace.json", "https://github.com/acme/skills"}
TreeUrlLists == {q \in SeqsUpTo(TreeUrls, MaxUrls) : \A i, j \in DOMAIN q : q[i] = q[j] => i = j}

\* result.plugins of a fetchAllMarketplaces(urls) call in which the
\* marketplaces in served returned their plugin and the others none.
RECURSIVE fetchedPlugins(_, _)
fetchedPlugins(urlList, served) ==
    IF urlList = <<>>
    THEN <<>>
    ELSE (IF Head(urlList) \in served
          THEN <<[id |-> "a", sourceUrl |-> Head(urlList)]>>
          ELSE <<>>) \o fetchedPlugins(Tail(urlList), served)

\* marketplaceMap.get(url) ?? []: the plugins of the result whose sourceUrl
\* is url, in the order of the result.
RECURSIVE pluginsOf(_, _)
pluginsOf(plugins, url) ==
    IF plugins = <<>>
    THEN <<>>
    ELSE (IF Head(plugins).sourceUrl = url THEN <<Head(plugins)>> ELSE <<>>)
             \o pluginsOf(Tail(plugins), url)

\* urls.map((url) => ({type: 'marketplace', url, plugins: marketplaceMap.get(url) ?? []}))
marketplaceNodes(urlList, plugins) ==
    [i \in DOMAIN urlList |-> [url |-> urlList[i], plugins |-> pluginsOf(plugins, urlList[i])]]

\* loadData() up to its first await, with current what getMarketplaceUrls()
\* returns: the provider's fields afterwards and whether the change event
\* fired. A call during a load returns at once. withProgress runs its task
\* at once; with no URL the task returns without awaiting and the finally
\* block resets _loading before anything else runs.
loadData(current) ==
    IF loading
    THEN [loading |-> TRUE, loadUrls |-> loadUrls, marketplaces |-> marketplaces,
          fired |-> FALSE]
    ELSE IF current = <<>>
    THEN [loading |-> FALSE, loadUrls |-> loadUrls, marketplaces |-> <<>>,
          fired |-> TRUE]
    ELSE [loading |-> TRUE, loadUrls |-> current, marketplaces |-> marketplaces,
          fired |-> FALSE]

\* The provider's fields after a loadData() call that returned called.
Loaded(called) ==
    /\ loading' = called.loading
    /\ loadUrls' = called.loadUrls
    /\ marketplaces' = called.marketplaces
    /\ viewDirty' = (viewDirty \/ called.fired)

\* The setting changes and onDidChangeConfiguration calls provider.loadData().
ChangeConfiguration(us) ==
    /\ us # marketplaceUrls
    /\ marketplaceUrls' = us
    /\ Loaded(loadData(us))
    /\ treeLast' = "configuration"
    /\ UNCHANGED shown
    /\ UNCHANGED cacheVars
    /\ UNCHANGED notTreeVars

\* The command refreshTreeView: provider.loadData().
RefreshTreeView ==
    /\ Loaded(loadData(marketplaceUrls))
    /\ treeLast' = "refresh"
    /\ UNCHANGED <<marketplaceUrls, shown>>
    /\ UNCHANGED cacheVars
    /\ UNCHANGED notTreeVars

\* The command forceRefreshTreeView: clearMarketplaceCache(), which empties
\* the cache as clearAll does, then provider.loadData().
ForceRefreshTreeView ==
    /\ memoryCache' = EmptyMap
    /\ globalState' = persistToStorage(memoryCache')
    /\ last' = [NoLast EXCEPT !.op = "clearAll", !.returned = TRUE]
    /\ UNCHANGED <<now, pendingRefreshes, fetches, invoked>>
    /\ Loaded(loadData(marketplaceUrls))
    /\ treeLast' = "forceRefresh"
    /\ UNCHANGED <<marketplaceUrls, shown>>
    /\ UNCHANGED notTreeVars

\* The await of fetchAllMarketplaces(urls) ends: the task builds the nodes of
\* the URLs it read when it started, fires the change event and returns, and
\* the finally block resets _loading.
LoadCompletes(served) ==
    /\ loading
    /\ marketplaces' = marketplaceNodes(loadUrls, fetchedPlugins(loadUrls, served))
    /\ viewDirty' = TRUE
    /\ loading' = FALSE
    /\ loadUrls' = <<>>
    /\ treeLast' = "loaded"
    /\ UNCHANGED <<marketplaceUrls, shown>>
    /\ UNCHANGED cacheVars
    /\ UNCHANGED notTreeVars

\* The view asks for the root after a change event: getChildren(undefined)
\* returns _marketplaces, or calls loadData() and returns [] when there are
\* none.
GetChildren ==
    /\ viewDirty
    /\ IF marketplaces = <<>>
       THEN LET called == loadData(marketplaceUrls) IN
            /\ loading' = called.loading
            /\ loadUrls' = called.loadUrls
            /\ marketplaces' = called.marketplaces
            /\ viewDirty' = called.fired
            /\ shown' = <<>>
       ELSE /\ shown' = marketplaces
            /\ viewDirty' = FALSE
            /\ UNCHANGED <<loading, loadUrls, marketplaces>>
    /\ treeLast' = "getChildren"
    /\ UNCHANGED marketplaceUrls
    /\ UNCHANGED cacheVars
    /\ UNCHANGED notTreeVars

InitTree == CacheIdle /\ ResolveIdle /\ WireIdle /\ AllIdle /\ ItemIdle /\ InstallIdle
                /\ TreeIdle

NextTree ==
    \/ \E us \in TreeUrlLists : ChangeConfiguration(us)
    \/ RefreshTreeView
    \/ ForceRefreshTreeView
    \/ \E served \in SUBSET TreeUrls : LoadCompletes(served)
    \/ GetChildren

SpecTree == InitTree /\ [][NextTree]_vars

\* Every fetchAllMarketplaces call returns in the end, and the view asks for
\* the root after every change event; the user's commands and changes of the
\* setting come when they come.
FairSpecTree ==
    /\ SpecTree
    /\ WF_vars(\E served \in SUBSET TreeUrls : LoadCompletes(served))
    /\ WF_vars(GetChildren)

(***************************************************************************)
(* The claims about the cache.                                             *)
(***************************************************************************)
Age(k) == now - memoryCache[k].timestamp
IsFreshEntry(k) == k \in DOMAIN memoryCache /\ Age(k) <= FreshTTL
IsStaleEntry(k) == k \in DOMAIN memoryCache /\ FreshTTL < Age(k) /\ Age(k) <= StaleTTL
IsExpiredEntry(k) == k \in DOMAIN memoryCache /\ Age(k) > StaleTTL
IsReadableEntry(k) == k \in DOMAIN memoryCache /\ Age(k) <= StaleTTL

\* The step is a call getWithRefresh(k, fetcher, {forceRefresh: force}).
CallsGetWithRefresh(k, force) ==
    last'.op = "getWithRefresh" /\ last'.key = k /\ last'.force = force

\* The background refreshes in flight for k.
BackgroundFetches(k) ==
    {id \in DOMAIN fetches : fetches[id].kind = "background" /\ fetches[id].key = k}

\* C1: getWithRefresh without forceRefresh on a stale entry returns, in the step
\* of the call itself (no fetcher has settled), the cached value with
\* fromCache and refreshing set, and a background refresh for the key is in
\* flight when it returns.
C1_StaleReturnsAndRefreshes ==
    [][\A k \in Keys :
        (CallsGetWithRefresh(k, FALSE) /\ IsStaleEntry(k)) =>
            /\ last'.returned /\ ~last'.threw
            /\ last'.found /\ last'.data = memoryCache[k].data
            /\ last'.fromCache /\ last'.refreshing
            /\ k \in DOMAIN pendingRefreshes'
            /\ pendingRefreshes'[k] \in DOMAIN fetches'
            /\ fetches'[pendingRefreshes'[k]].kind = "background"
            /\ fetches'[pendingRefreshes'[k]].key = k]_vars

\* A stale read has just returned and started the refresh that is now pending.
C1_Witness ==
    /\ last.op = "getWithRefresh" /\ ~last.force /\ last.returned
    /\ IsStaleEntry(last.key)
    /\ last.refreshing /\ last.fetch # 0
    /\ isRefreshing(last.key)
    /\ fetches[pendingRefreshes[last.key]].phase = "pending"

\* C2: never two background refreshes of one key in flight; while one is
\* outstanding, refreshInBackground(k) and a stale getWithRefresh(k) invoke no
\* fetcher and change neither the fetches nor the in-flight map.
C2_OneRefreshPerKey ==
    /\ [](\A k \in Keys : Cardinality(BackgroundFetches(k)) <= 1)
    /\ [][\A k \in Keys :
            (/\ isRefreshing(k)
             /\ \/ last'.op = "refreshInBackground" /\ last'.key = k
                \/ CallsGetWithRefresh(k, FALSE) /\ IsStaleEntry(k)) =>
                /\ last'.fetch = 0
                /\ invoked' = invoked
                /\ fetches' = fetches
                /\ pendingRefreshes' = pendingRefreshes]_vars

\* A second caller reads the stale entry while the first caller's refresh has
\* not settled: one fetcher invocation in all.
C2_Witness ==
    /\ last.op = "getWithRefresh" /\ ~last.force /\ last.returned
    /\ IsStaleEntry(last.key)
    /\ last.refreshing /\ last.fetch = 0
    /\ isRefreshing(last.key)
    /\ fetches[pendingRefreshes[last.key]].phase = "pending"
    /\ invoked = 1

\* C3: with no readable entry, or with forceRefresh, getWithRefresh invokes the
\* fetcher and awaits it; fulfilled, the value is stored and returned with
\* fromCache and refreshing unset; rejected, the call returns the value it
\* read at its start (fromCache set) if there was one, and rethrows only if
\* there was none; the rejection leaves the map as it was.
C3_SynchronousFetch ==
    /\ [][\A k \in Keys, force \in BOOLEAN :
            (CallsGetWithRefresh(k, force) /\ (force \/ ~IsReadableEntry(k))) =>
                /\ ~last'.returned
                /\ invoked' = invoked + 1
                /\ last'.fetch = invoked'
                /\ invoked' \in DOMAIN fetches'
                /\ fetches'[invoked'].kind = "sync"
                /\ fetches'[invoked'].phase = "pending"
                /\ fetches'[invoked'].cachedFound = IsReadableEntry(k)
                /\ IsReadableEntry(k) =>
                       fetches'[invoked'].cachedData = memoryCache[k].data]_vars
    /\ [][(last'.op = "resolved" /\ last'.kind = "sync") =>
            /\ last'.returned /\ ~last'.threw
            /\ ~last'.fromCache /\ ~last'.refreshing
            /\ last'.key \in DOMAIN memoryCache'
            /\ memoryCache'[last'.key].data = last'.data
            /\ memoryCache'[last'.key].timestamp = now]_vars
    /\ [][(last'.op = "rejected" /\ last'.kind = "sync") =>
            /\ memoryCache' = memoryCache
            /\ last'.returned
            /\ IF fetches[last'.fetch].cachedFound
               THEN /\ ~last'.threw
                    /\ last'.data = fetches[last'.fetch].cachedData
                    /\ last'.fromCache /\ ~last'.refreshing
               ELSE last'.threw]_vars

\* A forced fetch has failed and the call has fallen back on the entry it read.
C3_Witness ==
    /\ last.op = "rejected" /\ last.kind = "sync" /\ last.force
    /\ last.returned /\ last.fromCache /\ ~last.threw
    /\ last.key \in DOMAIN memoryCache
    /\ memoryCache[last.key].data = last.data

\* C4: getWithRefresh without forceRefresh on a fresh entry returns the cached
\* value with fromCache set and refreshing unset, invokes no fetcher and
\* leaves the map, the in-flight refreshes and the Memento unchanged.
C4_FreshIsReadOnly ==
    [][\A k \in Keys :
        (CallsGetWithRefresh(k, FALSE) /\ IsFreshEntry(k)) =>
            /\ last'.returned /\ ~last'.threw
            /\ last'.found /\ last'.data = memoryCache[k].data
            /\ last'.fromCache /\ ~last'.refreshing
            /\ last'.fetch = 0
            /\ UNCHANGED <<memoryCache, pendingRefreshes, fetches, invoked,
                           globalState>>]_vars

\* A fresh read at the edge of the fresh window (age = freshTTL).
C4_Witness ==
    /\ last.op = "getWithRefresh" /\ ~last.force /\ last.returned
    /\ last.key \in DOMAIN memoryCache
    /\ Age(last.key) = FreshTTL
    /\ last.fromCache /\ ~last.refreshing

\* C5: get returns the data with isFresh set up to age freshTTL, with isFresh
\* unset up to age staleTTL, and beyond that undefined, removing the entry;
\* an absent entry reads as undefined and only a write brings it back.
C5_GetByAge ==
    /\ [][\A k \in Keys :
            (last'.op = "get" /\ last'.key = k) =>
                /\ last'.returned
                /\ IsFreshEntry(k) =>
                       /\ last'.found /\ last'.isFresh
                       /\ last'.data = memoryCache[k].data
                       /\ memoryCache' = memoryCache
                /\ IsStaleEntry(k) =>
                       /\ last'.found /\ ~last'.isFresh
                       /\ last'.data = memoryCache[k].data
                       /\ memoryCache' = memoryCache
                /\ IsExpiredEntry(k) =>
                       /\ ~last'.found
                       /\ memoryCache' = MapDelete(memoryCache, k)
                /\ k \notin DOMAIN memoryCache =>
                       /\ ~last'.found
                       /\ memoryCache' = memoryCache]_vars
    /\ [][\A k \in Keys :
            (k \notin DOMAIN memoryCache /\ k \in DOMAIN memoryCache') =>
                last'.op \in {"set", "resolved"} /\ last'.key = k]_vars

\* get has just evicted an entry older than staleTTL.
C5_Witness ==
    /\ last.op = "get" /\ last.evicted /\ ~last.found
    /\ last.key \notin DOMAIN memoryCache

\* C6: a settled background refresh is eventually out of the in-flight map,
\* fulfilled or rejected; a rejected one leaves the map as it was and returns
\* or throws to no caller; once the marker is gone a stale read starts a new
\* refresh.
C6_SettledRefreshClears ==
    /\ \A id \in 1..MaxFetches :
         (/\ id \in DOMAIN fetches
          /\ fetches[id].kind = "background"
          /\ fetches[id].phase \in {"fulfilled", "rejected"})
            ~> (\A k \in DOMAIN pendingRefreshes : pendingRefreshes[k] # id)
    /\ [][(last'.op = "rejected" /\ last'.kind = "background") =>
            /\ memoryCache' = memoryCache
            /\ ~last'.returned /\ ~last'.threw]_vars
    /\ [][last'.op = "finally" => last'.key \notin DOMAIN pendingRefreshes']_vars
    /\ [][\A k \in Keys :
            (CallsGetWithRefresh(k, FALSE) /\ IsStaleEntry(k) /\ ~isRefreshing(k)) =>
                /\ invoked' = invoked + 1
                /\ last'.fetch = invoked'
                /\ k \in DOMAIN pendingRefreshes'
                /\ pendingRefreshes'[k] = invoked'
                /\ invoked' \in DOMAIN fetches'
                /\ fetches'[invoked'].kind = "background"
                /\ fetches'[invoked'].phase = "pending"]_vars

\* A failed refresh has been cleared and the entry is still the stale one.
C6_Witness ==
    /\ last.op = "finally" /\ last.outcome = "rejected"
    /\ ~isRefreshing(last.key)
    /\ IsStaleEntry(last.key)

\* C7: a forced getWithRefresh while a background refresh of the key is in
\* flight invokes the fetcher again and leaves that refresh and its marker
\* alone; the completion of one fetch leaves the other fetches in flight;
\* every fulfilled fetch writes its own value into the map (the last to
\* complete wins) and a synchronous caller gets the value of its own fetch.
C7_ForcedFetchRacesRefresh ==
    /\ [][\A k \in Keys :
            (CallsGetWithRefresh(k, TRUE) /\ isRefreshing(k)) =>
                /\ ~last'.returned
                /\ invoked' = invoked + 1
                /\ invoked' \in DOMAIN fetches'
                /\ fetches'[invoked'].kind = "sync"
                /\ pendingRefreshes' = pendingRefreshes
                /\ pendingRefreshes[k] \in DOMAIN fetches
                /\ pendingRefreshes[k] \in DOMAIN fetches'
                /\ fetches'[pendingRefreshes[k]] = fetches[pendingRefreshes[k]]]_vars
    /\ [][last'.op \in {"resolved", "rejected"} =>
            /\ pendingRefreshes' = pendingRefreshes
            /\ \A id \in DOMAIN fetches \ {last'.fetch} :
                   id \in DOMAIN fetches' /\ fetches'[id] = fetches[id]]_vars
    /\ [][last'.op = "resolved" =>
            /\ last'.key \in DOMAIN memoryCache'
            /\ memoryCache'[last'.key].data = last'.data
            /\ memoryCache'[last'.key].timestamp = now
            /\ last'.kind = "sync" =>
                   last'.returned /\ last'.found /\ ~last'.fromCache]_vars

\* The refresh has fulfilled and written; the forced fetch that raced it
\* completes after it, returns its own value, and that value is in the map.
C7_Witness ==
    /\ last.op = "resolved" /\ last.kind = "sync" /\ last.force
    /\ isRefreshing(last.key)
    /\ pendingRefreshes[last.key] \in DOMAIN fetches
    /\ fetches[pendingRefreshes[last.key]].phase = "fulfilled"
    /\ memoryCache[last.key].data = last.data

\* C8: at any moment, a cache constructed from the persisted snapshot holds
\* exactly the keys of the live cache whose age is within staleTTL, with the
\* same data and timestamps.
C8_ReloadRoundTrip ==
    LET loaded == loadFromStorage(globalState, now) IN
    /\ DOMAIN loaded = {k \in DOMAIN memoryCache : Age(k) <= StaleTTL}
    /\ \A k \in DOMAIN loaded :
          /\ loaded[k].data = memoryCache[k].data
          /\ loaded[k].timestamp = memoryCache[k].timestamp

\* A restart has dropped an entry older than staleTTL and kept another.
C8_Witness ==
    /\ last.op = "construct"
    /\ globalState.has
    /\ \E k \in DOMAIN globalState.value : k \notin DOMAIN memoryCache
    /\ \E k \in DOMAIN memoryCache : EntryEtag(memoryCache[k]) # Undefined

(***************************************************************************)
(* The claims about the resolution of a marketplace URL.                   *)
(***************************************************************************)
\* C9: the probes go out in candidate order, one at a time; the first
\* candidate answered with a 2xx is the document URL, it is the last one
\* probed, and nothing but a 2xx makes a candidate the document URL.
C9_SequentialProbing ==
    /\ Len(issued) - Len(answers) \in {0, 1}
    /\ Len(issued) <= Len(candidates)
    /\ \A i \in 1..Len(issued) : issued[i] = candidates[i]
    /\ \A i \in 1..Len(answers) :
          answers[i] = "ok" =>
              /\ i = Len(issued)
              /\ resolution.hasDocumentUrl
              /\ resolution.documentUrl = candidates[i]
    /\ resolution.hasDocumentUrl =>
          /\ Len(answers) >= 1
          /\ answers[Len(answers)] = "ok"
          /\ resolution.documentUrl = candidates[Len(answers)]

\* The second of four candidates answered with a 2xx after the first failed:
\* it is the document URL and the other two were never probed.
C9_Witness ==
    /\ pc = "fetching"
    /\ resolution.hasDocumentUrl
    /\ Len(candidates) = 4
    /\ answers = <<"notOk", "ok">>
    /\ issued = SubSeq(candidates, 1, 2)

\* C10: when a candidate succeeds after k candidates failed, the resolution,
\* and the result fetchMarketplace builds from it, holds one warning for
\* each of the k failed candidates, and no error for them.
C10_FailedCandidatesAreWarned ==
    /\ resolution.hasDocumentUrl =>
          /\ Len(resolution.warnings) = Len(answers) - 1
          /\ \A i \in 1..Len(resolution.warnings) :
                resolution.warnings[i] = candidateWarning(answers[i], candidates[i])
          /\ resolution.errors = <<>>
    /\ (pc = "done" /\ resolution.hasDocumentUrl) =>
          /\ Len(result.warnings) >= Len(answers) - 1
          /\ \A i \in 1..(Len(answers) - 1) :
                result.warnings[i] = candidateWarning(answers[i], candidates[i])
          /\ \A j \in 1..Len(result.errors) :
                result.errors[j].kind # "Could not resolve marketplace document"

\* The last probe answered: every candidate of the input has failed.
AllCandidatesFailed ==
    /\ Len(candidates) > 0
    /\ Len(answers) = Len(candidates)
    /\ \A i \in 1..Len(answers) : answers[i] # "ok"

\* C11: when every candidate has failed the call has returned (it did not
\* throw): the resolution has no document URL, one warning per candidate in
\* probe order and one error naming the input, and fetchMarketplace's result
\* has no plugins, those warnings and that one error.
C11_TotalFailureIsStructured ==
    AllCandidatesFailed =>
        /\ pc = "done"
        /\ ~resolution.hasDocumentUrl
        /\ Len(resolution.warnings) = Len(candidates)
        /\ \A i \in 1..Len(candidates) :
              /\ resolution.warnings[i].url = candidates[i]
              /\ resolution.warnings[i].kind =
                    IF answers[i] = "throw" THEN "Marketplace candidate unreachable"
                                            ELSE "Marketplace candidate failed"
        /\ Len(resolution.errors) = 1
        /\ resolution.errors[1].url = sourceUrl
        /\ result.plugins = <<>>
        /\ result.warnings = resolution.warnings
        /\ result.errors = resolution.errors

\* Four candidates failed, some with a response and some without one.
C11_Witness ==
    /\ AllCandidatesFailed
    /\ Len(candidates) = 4
    /\ answers = <<"notOk", "throw", "throw", "notOk">>
    /\ pc = "done"

\* The input is https://github.com/<owner>/<repo>, with or without .git.
IsRepositoryRoot(u) ==
    /\ u.valid
    /\ u.protocol = "https:"
    /\ u.hostname = "github.com"
    /\ Len(u.parts) = 2

\* C12: for a repository-root input the candidates are exactly the four
\* raw.githubusercontent.com URLs main/.claude-plugin/marketplace.json,
\* master/.claude-plugin/marketplace.json, main/.github/plugin/marketplace.json
\* and master/.github/plugin/marketplace.json of that owner and repository,
\* in this order.
C12_RepositoryRootCandidates ==
    (pc # "idle" /\ IsRepositoryRoot(sourceUrl)) =>
        LET owner == sourceUrl.parts[1]
            repo == Seg(sourceUrl.parts[2].name,
                        IF sourceUrl.parts[2].ext = ".git" THEN ""
                                                           ELSE sourceUrl.parts[2].ext)
            raw(rest) == [valid |-> TRUE, protocol |-> "https:",
                          hostname |-> "raw.githubusercontent.com",
                          parts |-> <<owner, repo>> \o rest, slash |-> FALSE]
            mj == Seg("marketplace", ".json")
        IN  candidates =
              << raw(<<Seg("main", ""), Seg(".claude-plugin", ""), mj>>),
                 raw(<<Seg("master", ""), Seg(".claude-plugin", ""), mj>>),
                 raw(<<Seg("main", ""), Seg(".github", ""), Seg("plugin", ""), mj>>),
                 raw(<<Seg("master", ""), Seg(".github", ""), Seg("plugin", ""), mj>>) >>

\* A repository root has been given and its first candidate is being probed.
C12_Witness ==
    /\ pc = "probing"
    /\ IsRepositoryRoot(sourceUrl)
    /\ sourceUrl.parts[2].ext = ""
    /\ Len(issued) = 1

(***************************************************************************)
(* The claims about authentication.                                        *)
(***************************************************************************)
GitHubHosts == {"github.com", "www.github.com", "raw.githubusercontent.com",
                "api.github.com"}
CarriesToken(r) == "Authorization" \in DOMAIN r.headers

\* C13: a request sent through authenticatedFetch carries the bearer token
\* only if its host is one of the four GitHub hosts and the provider returned
\* a session; to any other host, or when the provider returned none or
\* failed, it goes without the token.
C13_TokenOnlyToGitHub ==
    \A r \in network :
        r.via = "authenticatedFetch" =>
            /\ CarriesToken(r) =>
                  r.url.hostname \in GitHubHosts /\ r.session = "session"
            /\ (r.url.hostname \notin GitHubHosts \/ r.session # "session") =>
                  ~CarriesToken(r)

\* A request to a GitHub host went out with the token, and one to
\* gist.github.com without it.
C13_Witness ==
    /\ \E r \in network :
          /\ r.via = "authenticatedFetch"
          /\ r.url.hostname = "api.github.com"
          /\ CarriesToken(r)
          /\ r.headers["Authorization"] = "Bearer token"
    /\ \E r \in network :
          /\ r.via = "authenticatedFetch"
          /\ r.url.hostname = "gist.github.com"
          /\ ~CarriesToken(r)

\* C14: every GET that reaches the network was issued through
\* authenticatedFetch.
C14_EveryGetIsAuthenticated ==
    \A r \in network : r.via = "authenticatedFetch"

(***************************************************************************)
(* The claims about the normalizer.                                        *)
(***************************************************************************)
\* The plugin list of a manifest: the document itself when it is a list,
\* else what is under the first of plugins, items, extensions that holds an
\* array.
HasPluginList(d) ==
    \/ d.kind = "array"
    \/ d.kind = "object" /\ (d.plugins.isArray \/ d.items.isArray \/ d.extensions.isArray)
PluginListOf(d) ==
    CASE d.kind = "array" -> d.list
      [] d.kind = "object" /\ d.plugins.isArray -> d.plugins.list
      [] d.kind = "object" /\ ~d.plugins.isArray /\ d.items.isArray -> d.items.list
      [] d.kind = "object" /\ ~d.plugins.isArray /\ ~d.items.isArray
           /\ d.extensions.isArray -> d.extensions.list
      [] OTHER -> <<>>

\* A non-blank string.
NonBlank(value) == value.type = "string" /\ value.text \notin {"", "  "}
\* A valid entry: an object with a non-blank id, slug or name.
IsValidEntry(e) ==
    e.kind = "object" /\ (NonBlank(e.id) \/ NonBlank(e.slug) \/ NonBlank(e.name))
ValidEntries(d) == SelectSeq(PluginListOf(d), IsValidEntry)
IdentityOf(e) ==
    IF NonBlank(e.id) THEN asString(e.id)
    ELSE IF NonBlank(e.slug) THEN asString(e.slug) ELSE asString(e.name)

\* The plugins are those of the valid entries, in their order.
PluginsFollowValidEntries(d, n) ==
    /\ Len(n.plugins) = Len(ValidEntries(d))
    /\ \A i \in 1..Len(n.plugins) : n.plugins[i].id = IdentityOf(ValidEntries(d)[i])

\* C15 as stated: for a manifest whose plugin list has N valid and M invalid
\* entries, N >= 0 and M >= 0, the normalizer returns N plugins in the order
\* of the valid entries, M warnings and no errors.
C15_CountsForAllLists ==
    (documentAnswer = "json" /\ HasPluginList(json)) =>
        /\ PluginsFollowValidEntries(json, normalized)
        /\ Len(normalized.warnings) = Len(PluginListOf(json)) - Len(ValidEntries(json))
        /\ normalized.errors = <<>>

\* C15: for a manifest whose plugin list has N valid and M invalid entries
\* with N + M >= 1, the normalizer returns N plugins in the order of the
\* valid entries, M warnings and no errors; for an empty plugin list it
\* returns no plugins, no errors and one warning that no entries were found.
C15_CountsForNonEmptyLists ==
    (documentAnswer = "json" /\ HasPluginList(json)) =>
        /\ PluginsFollowValidEntries(json, normalized)
        /\ normalized.errors = <<>>
        /\ Len(PluginListOf(json)) >= 1 =>
              Len(normalized.warnings) =
                  Len(PluginListOf(json)) - Len(ValidEntries(json))
        /\ Len(PluginListOf(json)) = 0 =>
              /\ Len(normalized.warnings) = 1
              /\ normalized.warnings[1].kind = "No plugin entries found"

\* A list of three valid and two invalid entries has been normalized to three
\* plugins and two warnings.
C15_Witness ==
    /\ documentAnswer = "json"
    /\ HasPluginList(json)
    /\ Len(PluginListOf(json)) = 5
    /\ Len(normalized.plugins) = 3
    /\ Len(normalized.warnings) = 2

\* C16: a document that is neither a list nor an object with an array under
\* plugins, items or extensions gives no plugins, one warning and no errors;
\* otherwise the entries normalized are those of the first of the three keys
\* that holds an array (each entry of it gives a plugin or a warning).
C16_MalformedTopLevel ==
    documentAnswer = "json" =>
        /\ ~HasPluginList(json) =>
              /\ normalized.plugins = <<>>
              /\ Len(normalized.warnings) = 1
              /\ normalized.warnings[1].kind = "No plugin entries found"
              /\ normalized.errors = <<>>
        /\ (HasPluginList(json) /\ Len(PluginListOf(json)) >= 1) =>
              /\ PluginsFollowValidEntries(json, normalized)
              /\ Len(normalized.plugins) + Len(normalized.warnings)
                     = Len(PluginListOf(json))

\* An object whose plugins, items and extensions hold no array has been
\* normalized, and the call has returned.
C16_Witness ==
    /\ documentAnswer = "json"
    /\ json.kind = "object"
    /\ ~HasPluginList(json)
    /\ pc = "done"
    /\ result.plugins = <<>>
    /\ Len(result.warnings) = 1

(***************************************************************************)
(* The claims about fetchAllMarketplaces.                                  *)
(***************************************************************************)
\* What the marketplaces 1..n returned under a field, joined in URL order.
RECURSIVE FetchedUpTo(_, _)
FetchedUpTo(n, field) ==
    IF n = 0 THEN <<>> ELSE FetchedUpTo(n - 1, field) \o pipelines[n].value[field]
Fetched(field) == FetchedUpTo(Len(pipelines), field)

\* The k-th fetched plugin is the first with its (id, sourceUrl) pair.
IsFirstOfPair(k) ==
    \A j \in 1..(k - 1) :
        <<Fetched("plugins")[j].id, Fetched("plugins")[j].sourceUrl>>
            # <<Fetched("plugins")[k].id, Fetched("plugins")[k].sourceUrl>>

\* The k-th fetched plugin is the first under its key.
IsFirstSeen(k) ==
    \A j \in 1..(k - 1) : pluginKey(Fetched("plugins")[j]) # pluginKey(Fetched("plugins")[k])

MarketplaceFailed(i) == pipelines[i].value.errors # <<>>

\* C17: when the call has returned (it returns once every marketplace has
\* settled, failed or not), every first-seen plugin of every marketplace is
\* in the result as fetched, every warning and every error of every
\* marketplace is in the result, and nothing else is.
C17_FailuresAreIsolated ==
    /\ allPc \in {"idle", "waiting", "done"}
    /\ allPc = "done" =>
          /\ \A k \in 1..Len(Fetched("plugins")) :
                IsFirstSeen(k) => Fetched("plugins")[k] \in Range(aggregate.plugins)
          /\ \A i \in DOMAIN pipelines :
                /\ Range(pipelines[i].value.warnings) \subseteq Range(aggregate.warnings)
                /\ Range(pipelines[i].value.errors) \subseteq Range(aggregate.errors)
                /\ MarketplaceFailed(i) =>
                      \E e \in Range(aggregate.errors) : e.url \in
                          {urls[i]} \cup Range(candidateMarketplaceUrls(urls[i]))
          /\ Len(aggregate.warnings) = Len(Fetched("warnings"))
          /\ Len(aggregate.errors) = Len(Fetched("errors"))

\* The first marketplace could not be resolved, the second gave plugins and
\* warnings; the result holds the error of the one and the plugins of the
\* other.
C17_Witness ==
    /\ allPc = "done"
    /\ Len(urls) = 2
    /\ pipelines[1].value.plugins = <<>>
    /\ MarketplaceFailed(1)
    /\ Len(pipelines[1].value.warnings) = 4
    /\ ~MarketplaceFailed(2)
    /\ Len(pipelines[2].value.plugins) = 3
    /\ Len(aggregate.plugins) = 2
    /\ Len(aggregate.errors) = 1

\* C18: in a result no two plugins have the same (id, sourceUrl); the plugin
\* kept of each pair is the first fetched, in URL order and then manifest
\* order; dropping the others adds no error.
C18_FirstSeenWins ==
    allPc = "done" =>
        /\ \A i, j \in 1..Len(aggregate.plugins) :
              i # j =>
                 <<aggregate.plugins[i].id, aggregate.plugins[i].sourceUrl>>
                     # <<aggregate.plugins[j].id, aggregate.plugins[j].sourceUrl>>
        /\ \A i \in 1..Len(aggregate.plugins) :
              \E k \in 1..Len(Fetched("plugins")) :
                 /\ IsFirstOfPair(k)
                 /\ Fetched("plugins")[k] = aggregate.plugins[i]
        /\ Len(aggregate.errors) = Len(Fetched("errors"))

\* The same URL is configured twice and both fetches returned the plugin a,
\* the first under the name Plugin A, the second under another: one is kept,
\* under the first name.
C18_Witness ==
    /\ allPc = "done"
    /\ Len(urls) = 2
    /\ urls[1] = urls[2]
    /\ Len(pipelines[1].value.plugins) = 1
    /\ Len(pipelines[2].value.plugins) = 3
    /\ Len(aggregate.plugins) = 2
    /\ \E i \in 1..2 : aggregate.plugins[i].id = "a" /\ aggregate.plugins[i].name = "Plugin A"
    /\ aggregate.errors = <<>>

\* The names of a plugin list ascend in collation order.
SortedByName(plugins) ==
    \A i, j \in 1..Len(plugins) :
        i < j => CollationRank(plugins[i].name) <= CollationRank(plugins[j].name)

\* C19: the call starts the fetch of every URL in its first step; it
\* returns only when all of them have settled; and what it returns is
\* decided by what each URL's fetch returned, whatever the order they
\* settled in: the plugins sorted by name, the warnings and the errors
\* joined in URL order.
C19_ConcurrentAndDeterministic ==
    /\ [][(allPc = "idle" /\ allPc' = "waiting") =>
             /\ DOMAIN pipelines' = 1..Len(urls')
             /\ \A i \in DOMAIN pipelines' : pipelines'[i].status = "running"]_vars
    /\ [](allPc # "done" => aggregate = NoResult)
    /\ [](allPc = "done" =>
             /\ Len(settledOrder) = Len(urls)
             /\ \A i \in DOMAIN pipelines : pipelines[i].status # "running"
             /\ SortedByName(aggregate.plugins)
             /\ Range(aggregate.plugins) =
                    {Fetched("plugins")[k] : k \in {n \in 1..Len(Fetched("plugins")) :
                                                       IsFirstSeen(n)}}
             /\ aggregate.warnings = Fetched("warnings")
             /\ aggregate.errors = Fetched("errors"))

\* The fetch of the second URL settled before that of the first, both with
\* warnings and plugins, and the call has returned.
C19_Witness ==
    /\ allPc = "done"
    /\ settledOrder = <<2, 1>>
    /\ urls[1] # urls[2]
    /\ Len(pipelines[1].value.warnings) > 0
    /\ Len(pipelines[2].value.warnings) > 0
    /\ pipelines[1].value.warnings # pipelines[2].value.warnings
    /\ Len(aggregate.plugins) = 3

(***************************************************************************)
(* The claims about error propagation.                                     *)
(***************************************************************************)
\* C20: no call of fetchMarketplace, fetchAllMarketplaces,
\* fetchGroupItemDescription or fetchGroupItemContent ends in an exception:
\* each is idle, waiting for the network, or has returned a result; and when
\* the document of a resolved marketplace cannot be had (a response that is
\* not 2xx, a network error, a body that is not JSON) or hydration throws,
\* fetchMarketplace returns no plugins and exactly one error.
C20_NoExceptionEscapes ==
    /\ pc \in {"idle", "probing", "fetching", "hydrating", "done"}
    /\ allPc \in {"idle", "waiting", "done"}
    /\ itemPc \in {"idle", "requesting", "done"}
    /\ pc = "probing" => Len(issued) = Len(answers) + 1
    /\ itemPc = "requesting" => Len(itemRequested) = Len(itemAnswers) + 1
    /\ (resolution.hasDocumentUrl
        /\ (documentAnswer \in {"notOk", "throw", "invalidJson"} \/ hydration = "throws")) =>
          /\ pc = "done"
          /\ result.plugins = <<>>
          /\ Len(result.errors) = 1
          /\ result.errors[1].kind = "Failed to fetch"
          /\ result.errors[1].url = resolution.documentUrl
    /\ (itemPc = "done" /\ \A i \in 1..Len(itemAnswers) : itemAnswers[i].kind # "ok") =>
          itemResult = NoItemResult
    /\ allPc = "done" => Len(aggregate.errors) = Len(Fetched("errors"))

\* The body of the resolved document was not JSON and fetchMarketplace has
\* returned its one error.
C20_Witness ==
    /\ pc = "done"
    /\ resolution.hasDocumentUrl
    /\ documentAnswer = "invalidJson"
    /\ Len(result.errors) = 1

(***************************************************************************)
(* The claims about the descriptor requests of an item.                    *)
(***************************************************************************)
\* The answer gives the call something to return: a 2xx body for the content,
\* a 2xx body with a description, a summary or a line of text for the
\* description.
AnswerHasResult(op, answer) ==
    /\ answer.kind = "ok"
    /\ op = "fetchGroupItemDescription" =>
          (answer.body.frontMatter # "" \/ answer.body.firstLine # "")

\* C26: fetchGroupItemContent and fetchGroupItemDescription request the
\* item's metadataUrl first and then its metadataFallbackUrls in list order,
\* one request at a time; they stop at the first URL whose answer has a result
\* (no later URL is requested) and return that result, and return the empty
\* result when every URL has failed.
C26_DescriptorUrlsInOrder ==
    /\ \E item \in Items :
          itemUrls \in {<<>>, SelectSeq(<<item.metadataUrl>> \o item.metadataFallbackUrls,
                                        LAMBDA u : u # "")}
    /\ Len(itemRequested) <= Len(itemUrls)
    /\ \A i \in 1..Len(itemRequested) : itemRequested[i] = itemUrls[i]
    /\ itemPc = "requesting" => Len(itemRequested) = Len(itemAnswers) + 1
    /\ itemPc = "done" => Len(itemRequested) = Len(itemAnswers)
    /\ \A i \in 1..Len(itemAnswers) :
          (i < Len(itemAnswers) \/ itemPc = "requesting") =>
             ~AnswerHasResult(itemOp, itemAnswers[i])
    /\ itemPc = "done" =>
          LET n == Len(itemAnswers) IN
          IF n > 0 /\ AnswerHasResult(itemOp, itemAnswers[n])
          THEN /\ itemResult.found
               /\ itemOp = "fetchGroupItemContent" => itemResult.url = itemUrls[n]
          ELSE /\ itemResult = NoItemResult
               /\ Len(itemRequested) = Len(itemUrls)

\* The first URL failed, the second gave a result, and a third URL was left
\* unrequested.
C26_Witness ==
    /\ itemPc = "done"
    /\ Len(itemUrls) = 3
    /\ Len(itemRequested) = 2
    /\ itemAnswers[1].kind = "notOk"
    /\ itemResult.found

(***************************************************************************)
(* The claims about groups and items.                                      *)
(***************************************************************************)
\* The plugins the call holds: normalized, hydrated so far, and returned.
PluginsHeld ==
    Range(normalized.plugins) \cup Range(hydratedPlugins) \cup Range(result.plugins)
GroupsOf(plugin) == Range(plugin.groups)
ItemsOf(plugin) == UNION {Range(group.items) : group \in GroupsOf(plugin)}
DocumentRepoContext == repoContextFromDocumentUrl(resolution.documentUrl)

\* C21 as stated: every item of every plugin produced by normalization or by
\* hydration has a metadataUrl, or a non-empty metadataFallbackUrls list, or
\* a description.
C21_EveryItemCanBePreviewed ==
    \A plugin \in PluginsHeld : \A item \in ItemsOf(plugin) :
        \/ item.metadataUrl.valid
        \/ item.metadataFallbackUrls # <<>>
        \/ item.description.defined

\* C21, amended: every item has a name; an item has a metadataUrl exactly
\* when it has a path that is an http(s) URL or that was resolved under a
\* repository context, and fallback URLs only beside a metadataUrl; an item
\* declared by name only, or by a relative path in a manifest that is not
\* repository-backed, has neither, and has a description only if its entry
\* gave one.
C21_ItemsWithPathHaveMetadata ==
    \A plugin \in PluginsHeld : \A item \in ItemsOf(plugin) :
        /\ item.name.defined
        /\ item.metadataUrl.valid <=>
              (item.path.defined /\ (isHttpUrl(item.path) \/ DocumentRepoContext.defined))
        /\ item.metadataFallbackUrls # <<>> => item.metadataUrl.valid

\* The call returned a plugin with an item that has a metadataUrl and an item
\* that has no metadataUrl, no fallback URL and no description.
C21_Witness ==
    /\ pc = "done"
    /\ \E plugin \in Range(result.plugins) :
          /\ \E item \in ItemsOf(plugin) :
                item.metadataUrl.valid /\ item.metadataFallbackUrls # <<>>
          /\ \E item \in ItemsOf(plugin) :
                /\ ~item.metadataUrl.valid
                /\ item.metadataFallbackUrls = <<>>
                /\ ~item.description.defined

\* The position of a category key in the fixed order skills, agents,
\* commands, tools, prompts, workflows (0: not a category key).
KeyIndex(key) ==
    IF \E i \in 1..Len(groupDefinitions) : groupDefinitions[i].key = key
    THEN CHOOSE i \in 1..Len(groupDefinitions) : groupDefinitions[i].key = key
    ELSE 0

\* C22: in every plugin produced by normalization or hydration each group
\* has at least one item, the group keys are among skills, agents, commands,
\* tools, prompts, workflows, pairwise distinct and in that order; and a
\* normalized plugin has a group for exactly the categories that yield items.
C22_GroupsAreNonEmptyAndOrdered ==
    /\ \A plugin \in PluginsHeld :
          /\ \A i \in 1..Len(plugin.groups) :
                /\ Len(plugin.groups[i].items) > 0
                /\ KeyIndex(plugin.groups[i].key) > 0
                /\ plugin.groups[i].name = groupDefinitions[KeyIndex(plugin.groups[i].key)].name
          /\ \A i, j \in 1..Len(plugin.groups) :
                i < j => KeyIndex(plugin.groups[i].key) < KeyIndex(plugin.groups[j].key)
    /\ hydration # "completed" =>
          \A plugin \in Range(normalized.plugins) :
             {group.key : group \in GroupsOf(plugin)} =
                {groupDefinitions[i].key : i \in
                    {k \in 1..Len(groupDefinitions) :
                        collectGroupValues(plugin.raw, groupDefinitions[k].key,
                                           DocumentRepoContext) # <<>>}}

\* The call returned a plugin whose entry declared two categories with items,
\* and a plugin without categories that hydration gave two groups.
C22_Witness ==
    /\ pc = "done"
    /\ hydration = "completed"
    /\ \E plugin \in Range(result.plugins) :
          /\ valueAt(plugin.raw, "skills") # JUndefined
          /\ Len(plugin.groups) = 2
    /\ \E plugin \in Range(result.plugins) :
          /\ valueAt(plugin.raw, "skills") = JUndefined
          /\ Len(plugin.groups) = 2

(***************************************************************************)
(* The claims about hydration.                                             *)
(***************************************************************************)
\* C23: hydration issues a GET (sub-manifest or directory listing) only for
\* a plugin that has no groups after normalization, in a manifest resolved
\* at raw.githubusercontent.com; a plugin that has a group is passed on as
\* normalized, and for a manifest hosted elsewhere the plugins are returned
\* as normalized and no GET of hydration is issued.
C23_HydrationOnlyWithoutGroups ==
    /\ [](/\ hydrationRequests # <<>> =>
                /\ resolution.documentUrl.hostname = "raw.githubusercontent.com"
                /\ DocumentRepoContext.defined
          /\ (pc = "done" /\ documentAnswer = "json" /\ ~DocumentRepoContext.defined) =>
                /\ hydrationRequests = <<>>
                /\ result.plugins = normalized.plugins
                /\ hydration = "skipped")
    /\ [][/\ hydrationRequests' # hydrationRequests =>
                /\ walk'.stage # "none"
                /\ Len(hydratedPlugins') < Len(normalized'.plugins)
                /\ normalized'.plugins[Len(hydratedPlugins') + 1].groups = <<>>
          /\ Len(hydratedPlugins') >= Len(hydratedPlugins)
          /\ \A i \in 1..Len(hydratedPlugins') :
                IF i <= Len(hydratedPlugins)
                THEN hydratedPlugins'[i] = hydratedPlugins[i]
                ELSE /\ i <= Len(normalized'.plugins)
                     /\ normalized'.plugins[i].groups # <<>> =>
                           hydratedPlugins'[i] = normalized'.plugins[i]
         ]_vars

\* The call returned two plugins after GETs of hydration: the first had
\* groups and kept them, the second had none.
C23_Witness ==
    /\ pc = "done"
    /\ hydration = "completed"
    /\ hydrationRequests # <<>>
    /\ Len(result.plugins) = 2
    /\ result.plugins[1].groups # <<>>
    /\ result.plugins[1].groups =
          extractPluginGroups(result.plugins[1].raw, DocumentRepoContext)
    /\ extractPluginGroups(result.plugins[2].raw, DocumentRepoContext) = <<>>

\* The names of the entries of a directory listing that
\* expandGroupDirectoryReference adopts: the directories, or else the
\* markdown files.
NamesOfType(payload, type) ==
    LET chosen == SelectSeq(payload.list,
                      LAMBDA e : /\ e.kind = "object"
                                 /\ valueAt(e, "type") = JString(Word(type))
                                 /\ valueAt(e, "name").kind = "string"
                                 /\ type = "file" =>
                                       LowerCase(valueAt(e, "name").text.parts[1].ext) = ".md")
    IN  [i \in 1..Len(chosen) |-> valueAt(chosen[i], "name").text]
AdoptedNames(answer) ==
    IF answer.failed \/ answer.payload.kind # "array" THEN <<>>
    ELSE IF NamesOfType(answer.payload, "dir") # <<>>
    THEN NamesOfType(answer.payload, "dir")
    ELSE NamesOfType(answer.payload, "file")

\* The plugin being hydrated, and the groups hydration has for it after a
\* step: the walk's, or those of the plugin it has just returned.
HydratingPlugin == normalized.plugins[Len(hydratedPlugins) + 1]
ConventionPath(key) ==
    IF sourceBasePath(HydratingPlugin) = EmptyText THEN Word(key)
    ELSE joinPath(sourceBasePath(HydratingPlugin), Word(key))

WalkStart ==
    LET first == sourceConfigCandidates(sourceOf(HydratingPlugin), DocumentRepoContext)[1]
        starts == {j \in 1..Len(hydrationRequests) :
                      /\ hydrationRequests[j].kind = "config"
                      /\ hydrationRequests[j].url = first}
    IN  IF starts = {} THEN 0
        ELSE CHOOSE j \in starts : \A k \in starts : k <= j

\* C25: a failed GET (non-2xx, rejected fetch, unparsable body) makes
\* fetchPluginSourceConfig go on without a sub-manifest and listRepoDirectory
\* return undefined, neither throwing; a plugin for which every sub-manifest
\* GET and every listing failed is returned by hydration as normalized, with
\* zero groups; and hydration adds no warning and no error to the result.
C25_FailedHydrationIsSilent ==
    /\ [](/\ \A answer \in HydrationFailures :
                /\ configOf(answer) = JUndefined
                /\ ~listRepoDirectory(answer).defined
          /\ (pc = "done" /\ hydration = "completed") =>
                /\ result.plugins = hydratedPlugins
                /\ result.errors = <<>>
                /\ result.warnings = resolution.warnings \o normalized.warnings
                /\ normalized.warnings =
                      normalizeMarketplaceDocument(json, sourceUrl, resolution.documentUrl,
                                                   DocumentRepoContext).warnings)
    /\ [][/\ pc = "hydrating" =>
                /\ normalized'.warnings = normalized.warnings
                /\ normalized'.errors = normalized.errors
          /\ (/\ Len(hydrationAnswers') > Len(hydrationAnswers)
              /\ Len(hydratedPlugins') > Len(hydratedPlugins)
              /\ WalkStart > 0
              /\ \A i \in WalkStart..Len(hydrationAnswers') : hydrationAnswers'[i].failed) =>
                /\ pc' = "hydrating"
                /\ hydratedPlugins'[Len(hydratedPlugins) + 1] = HydratingPlugin
                /\ HydratingPlugin.groups = <<>>
         ]_vars

\* The call returned after hydration in which every GET failed: three
\* sub-manifest candidates and six directory listings for the one plugin,
\* which is returned with zero groups and without a warning or an error.
C25_Witness ==
    /\ pc = "done"
    /\ hydration = "completed"
    /\ Len(hydrationAnswers) = 9
    /\ \A i \in 1..9 : hydrationAnswers[i].failed
    /\ {hydrationRequests[i].kind : i \in 1..9} = {"config", "listing"}
    /\ Len(result.plugins) = 1
    /\ result.plugins[1].groups = <<>>
    /\ result.warnings = <<>>
    /\ result.errors = <<>>

(***************************************************************************)
(* The claims about the items of a plugin entry.                           *)
(***************************************************************************)
\* The plugins as normalizePlugin built them: those held while hydration
\* runs, or returned without hydration.
AsNormalized ==
    IF pc = "hydrating" \/ (pc = "done" /\ hydration = "skipped" /\ documentAnswer = "json")
    THEN normalized.plugins
    ELSE <<>>
TopLevelItems(plugin, key) ==
    toGroupItems(valueAt(plugin.raw, key), key, DocumentRepoContext)
ManifestItems(plugin, key) ==
    IF asRecord(valueAt(plugin.raw, "manifest"))
    THEN toGroupItems(valueAt(valueAt(plugin.raw, "manifest"), key), key,
                      DocumentRepoContext)
    ELSE <<>>
MergedItems(plugin, key) ==
    LET ofKey == {g \in Range(plugin.groups) : g.key = key}
    IN  IF ofKey = {} THEN <<>> ELSE (CHOOSE g \in ofKey : TRUE).items
SameName(a, b) == toLowerCase(a.name) = toLowerCase(b.name)
FirstSeen(items, item) ==
    CHOOSE i \in 1..Len(items) :
        /\ SameName(items[i], item)
        /\ \A k \in 1..(i - 1) : ~SameName(items[k], item)

\* C29: for each category key of a plugin entry, the group's items are the
\* items of the top-level value followed by those of the manifest value,
\* without the items whose name, ignoring case, was seen before: no two
\* names are equal ignoring case, every name of either list is kept once,
\* the kept item is the first seen (the top-level one on a conflict), and
\* the items are in first-seen order.
C29_MergeKeepsTopLevelFirst ==
    \A p \in 1..Len(AsNormalized) : \A d \in 1..Len(groupDefinitions) :
        LET plugin == AsNormalized[p]
            key == groupDefinitions[d].key
            seen == TopLevelItems(plugin, key) \o ManifestItems(plugin, key)
            merged == MergedItems(plugin, key)
        IN  /\ \A i, j \in 1..Len(merged) : SameName(merged[i], merged[j]) => i = j
            /\ \A k \in 1..Len(seen) : \E i \in 1..Len(merged) : SameName(merged[i], seen[k])
            /\ \A i \in 1..Len(merged) :
                  /\ \E k \in 1..Len(seen) : SameName(seen[k], merged[i])
                  /\ (\E k \in 1..Len(seen) : SameName(seen[k], merged[i])) =>
                        merged[i] = seen[FirstSeen(seen, merged[i])]
            /\ \A i, j \in 1..Len(merged) :
                  (/\ i < j
                   /\ \E k \in 1..Len(seen) : SameName(seen[k], merged[i])
                   /\ \E k \in 1..Len(seen) : SameName(seen[k], merged[j])) =>
                        FirstSeen(seen, merged[i]) < FirstSeen(seen, merged[j])

\* A plugin whose manifest names a skill "SUMMARIZE" that the top level has
\* as "summarize" and a skill "extra" that the top level lacks: the
\* top-level item is kept, and "extra" follows the top-level items.
C29_Witness ==
    \E p \in 1..Len(AsNormalized) :
        LET plugin == AsNormalized[p]
            top == TopLevelItems(plugin, "skills")
            nested == ManifestItems(plugin, "skills")
            merged == MergedItems(plugin, "skills")
        IN  /\ \E i \in 1..Len(top) : \E k \in 1..Len(nested) :
                  /\ SameName(top[i], nested[k])
                  /\ top[i] # nested[k]
                  /\ \E m \in 1..Len(merged) : merged[m] = top[i]
                  /\ \A m \in 1..Len(merged) : merged[m] # nested[k]
            /\ \E k \in 1..Len(nested) :
                  /\ \A i \in 1..Len(top) : ~SameName(top[i], nested[k])
                  /\ Len(merged) > Len(top) - 1
                  /\ merged[Len(merged)] = nested[k]

\* C30: a category whose top-level value in a plugin entry is one non-blank
\* string gives the plugin a group for that category, of exactly one item,
\* built from the string as a path.
C30_StringValueYieldsOneItem ==
    \A p \in 1..Len(AsNormalized) : \A d \in 1..Len(groupDefinitions) :
        LET plugin == AsNormalized[p]
            key == groupDefinitions[d].key
            value == valueAt(plugin.raw, key)
        IN  (/\ asStringText(value) # NoText
             /\ ManifestItems(plugin, key) = <<>>) =>
               MergedItems(plugin, key) =
                  <<buildItemFromPath(asStringText(value), key, DocumentRepoContext)>>

(***************************************************************************)
(* The claims about the installer.                                         *)
(***************************************************************************)
Settled == \A i \in 1..Len(tasks) : tasks[i].status # "pending"
StartedInstalls == installs > 0 /\ ~(installPayload.scope = "workspace" /\ ~host.folders)
WrittenBy(i) == {tasks[i].plan.writes[k].path : k \in 1..Len(tasks[i].plan.writes)}

C27_WitnessRejected ==
    /\ installPc = "returned"
    /\ Settled
    /\ ~installResult.success
    /\ installResult.error # ""
    /\ host.writable
    /\ \E i \in CurrentTasks : tasks[i].status = "rejected"
    /\ \E i \in CurrentTasks : tasks[i].status = "fulfilled" /\ WrittenBy(i) # {}
    /\ files # EmptyMap

\* C28: executeInstall called a second time with the same plugins, scope and
\* target path, against the same remote, leaves the files and directories
\* of the target and the two workspace settings as the first call left
\* them.
C28_SecondInstallChangesNothing ==
    (firstRun.taken /\ installs = 2 /\ installPc = "returned" /\ Settled) =>
        /\ files = firstRun.files
        /\ dirs = firstRun.dirs
        /\ settings = firstRun.settings

(***************************************************************************)
(* The claims about the derivation of an item from a path.                 *)
(***************************************************************************)
\* The descriptor files of a category, in the order of the convention.
ConventionFiles(key) ==
    IF key = "skills" THEN <<Seg("SKILL", ".md"), Seg("README", ".md")>>
    ELSE IF key = "agents"
    THEN <<Seg("AGENT", ".md"), Seg("AGENTS", ".md"), Seg("README", ".md")>>
    ELSE <<Seg("README", ".md")>>

\* `${base}/${path}/${file}`
UnderPath(base, path, file) == appendSegments(base, segmentsOf(path) \o <<file>>)

\* C31: an item whose path is an http(s) string has that string as its
\* metadataUrl and no fallback URLs; in a repository-backed marketplace an
\* item whose relative path ends in .md has the raw-content URL of that file
\* as its metadataUrl and no fallback URLs, and an item with any other
\* relative path has <raw base>/<path>/<first descriptor file> as its
\* metadataUrl and the remaining descriptor files of its category, in the
\* order of the convention, as its fallback URLs.
C31_PathDecidesMetadata ==
    \A plugin \in PluginsHeld : \A group \in GroupsOf(plugin) :
       \A item \in Range(group.items) :
          item.path.defined =>
             IF isHttpUrl(item.path)
             THEN /\ item.metadataUrl = textUrl(item.path)
                  /\ item.metadataFallbackUrls = <<>>
             ELSE DocumentRepoContext.defined =>
                    IF isMarkdownPath(item.path)
                    THEN /\ item.metadataUrl =
                               appendSegments(DocumentRepoContext.rawBaseUrl,
                                              segmentsOf(item.path))
                         /\ item.metadataFallbackUrls = <<>>
                    ELSE /\ item.metadataUrl =
                               UnderPath(DocumentRepoContext.rawBaseUrl, item.path,
                                         ConventionFiles(group.key)[1])
                         /\ item.metadataFallbackUrls =
                               [i \in 1..(Len(ConventionFiles(group.key)) - 1) |->
                                   UnderPath(DocumentRepoContext.rawBaseUrl, item.path,
                                             ConventionFiles(group.key)[i + 1])]

\* The call on a repository-backed manifest returned a plugin with an item
\* from a markdown path, an item from an http(s) string, a skills item from a
\* directory path (one fallback URL) and an agents item from a directory path
\* (two fallback URLs).
C31_Witness ==
    /\ pc = "done"
    /\ DocumentRepoContext.defined
    /\ \E plugin \in Range(result.plugins) :
          /\ \E item \in ItemsOf(plugin) :
                item.path.defined /\ ~isHttpUrl(item.path) /\ isMarkdownPath(item.path)
          /\ \E item \in ItemsOf(plugin) : item.path.defined /\ isHttpUrl(item.path)
          /\ \E group \in GroupsOf(plugin) : \E item \in Range(group.items) :
                /\ group.key = "skills"
                /\ item.path.defined
                /\ Len(item.metadataFallbackUrls) = 1
          /\ \E group \in GroupsOf(plugin) : \E item \in Range(group.items) :
                /\ group.key = "agents"
                /\ item.path.defined
                /\ Len(item.metadataFallbackUrls) = 2

(***************************************************************************)
(* The claims about the expansion of a directory reference.                *)
(***************************************************************************)
\* The items the category being walked has after a step: those collected so
\* far for an array value that is still being walked, else those of the
\* category's group (none: no group).
ItemsAfterStep ==
    LET key == groupDefinitions[walk.group].key
        groups == IF Len(hydratedPlugins') = Len(hydratedPlugins)
                  THEN walk'.hydratedGroups
                  ELSE hydratedPlugins'[Len(hydratedPlugins) + 1].groups
        ofKey == {g \in Range(groups) : g.key = key}
    IN  IF /\ Len(hydratedPlugins') = Len(hydratedPlugins)
           /\ walk'.group = walk.group
        THEN walk'.items
        ELSE IF ofKey = {} THEN <<>> ELSE (CHOOSE g \in ofKey : TRUE).items

\* C32: when the listing of a path is answered, the listed path yields one
\* item per sub-directory, named after it and in listing order, whenever the
\* listing has a sub-directory (markdown files beside them are ignored),
\* otherwise one item per markdown file; a listing with neither, an empty
\* one and a failed one yield no items (for a declared path its caller then
\* makes the single item of the path itself).  The items are determined by
\* the path and the listing alone, so the same listing of the same path
\* yields the same items in the same order.
C32_ExpansionFollowsListing ==
    [][(walk.stage \in {"discover", "string", "array"}
           /\ Len(hydrationAnswers') > Len(hydrationAnswers)) =>
          LET names == AdoptedNames(hydrationAnswers'[Len(hydrationAnswers')])
              before == IF walk.stage = "array" THEN walk.items ELSE <<>>
              after == ItemsAfterStep
          IN  IF names # <<>>
              THEN /\ Len(after) >= Len(before) + Len(names)
                   /\ walk.stage # "array" => Len(after) = Len(names)
                   /\ \A i \in 1..Len(names) :
                         /\ after[Len(before) + i].name = names[i]
                         /\ after[Len(before) + i].path = joinPath(walk.path, names[i])
              ELSE IF walk.stage = "discover"
              THEN after = <<>>
              ELSE /\ Len(after) >= Len(before) + 1
                   /\ walk.stage = "string" => Len(after) = 1
                   /\ after[Len(before) + 1].path = normalizeRelativePath(walk.resolved)
                   /\ after[Len(before) + 1].name = normalizeRelativePath(walk.resolved)
      ]_vars

\* The call returned a plugin hydrated from a sub-manifest whose skills path
\* listed two directories beside a markdown file (two items, named after the
\* directories) and whose agents array held a path that listed markdown
\* files only (an item per markdown file).
C32_Witness ==
    /\ pc = "done"
    /\ hydration = "completed"
    /\ \E i \in 1..Len(hydrationAnswers) : hydrationAnswers[i].payload = ConfigStrings
    /\ \E i \in 1..Len(hydrationAnswers) : hydrationAnswers[i].payload = TwoDirectories
    /\ \E i \in 1..Len(hydrationAnswers) : hydrationAnswers[i].payload = MarkdownFiles
    /\ \E plugin \in Range(result.plugins) :
          /\ \E group \in GroupsOf(plugin) :
                /\ group.key = "skills"
                /\ Len(group.items) = 2
                /\ group.items[1].name = Word("summarize")
                /\ group.items[2].name = Word("translate")
          /\ \E group \in GroupsOf(plugin) :
                /\ group.key = "agents"
                /\ \E i \in 1..Len(group.items) :
                      group.items[i].name = Path(<<Seg("NOTES", ".MD")>>)

(***************************************************************************)
(* The claims about the sub-manifest of a plugin.                          *)
(***************************************************************************)
\* <raw base>/<source>/<file path>, or <raw base>/<file path> for a source
\* that is the repository root.
UnderSource(plugin, filePath) ==
    appendSegments(DocumentRepoContext.rawBaseUrl,
        (IF sourceBasePath(plugin) = EmptyText THEN <<>>
         ELSE sourceBasePath(plugin).parts) \o filePath)

\* The three locations of a sub-manifest, in the order they are tried.
ConfigLocation(plugin, k) ==
    IF k = 1 THEN UnderSource(plugin, <<Seg(".claude-plugin", ""), Seg("plugin", ".json")>>)
    ELSE IF k = 2
    THEN UnderSource(plugin, <<Seg(".github", ""), Seg("plugin", ""), Seg("plugin", ".json")>>)
    ELSE UnderSource(plugin, <<Seg("plugin", ".json")>>)

\* The answer is a 2xx response whose body parses as a JSON object.
IsConfig(answer) == ~answer.failed /\ answer.payload.kind = "object"

\* C33: while fetchPluginSourceConfig runs it has one GET outstanding, the
\* k-th of <source>/.claude-plugin/plugin.json,
\* <source>/.github/plugin/plugin.json, <source>/plugin.json, and the k - 1
\* GETs before it were for the locations before it, in order, none answered
\* with a JSON object; an answer that is a 2xx with a JSON object is
\* returned and no further location is requested; any other answer (non-2xx,
\* unreachable, invalid JSON, a JSON value that is no object) makes it
\* request the next location, and after the third it returns undefined.
C33_SubManifestLocationsInOrder ==
    /\ [](walk.stage = "config" =>
            /\ walk.candidate \in 1..3
            /\ walk.sourceConfig = JUndefined
            /\ Len(hydrationRequests) = Len(hydrationAnswers) + 1
            /\ Len(hydrationRequests) >= walk.candidate
            /\ \A k \in 1..walk.candidate :
                  LET j == Len(hydrationRequests) - walk.candidate + k IN
                  /\ hydrationRequests[j].kind = "config"
                  /\ hydrationRequests[j].url = ConfigLocation(HydratingPlugin, k)
                  /\ k < walk.candidate => ~IsConfig(hydrationAnswers[j]))
    /\ [][(walk.stage = "config" /\ Len(hydrationAnswers') > Len(hydrationAnswers)) =>
            LET answer == hydrationAnswers'[Len(hydrationAnswers')]
                samePlugin == Len(hydratedPlugins') = Len(hydratedPlugins)
            IN  IF IsConfig(answer)
                THEN samePlugin =>
                        /\ walk'.stage # "config"
                        /\ walk'.sourceConfig = answer.payload
                        /\ \A j \in (Len(hydrationRequests) + 1)..Len(hydrationRequests') :
                              hydrationRequests'[j].kind = "listing"
                ELSE IF walk.candidate < 3
                THEN /\ samePlugin
                     /\ walk'.stage = "config"
                     /\ walk'.candidate = walk.candidate + 1
                     /\ Len(hydrationRequests') = Len(hydrationRequests) + 1
                ELSE samePlugin =>
                        /\ walk'.stage # "config"
                        /\ walk'.sourceConfig = JUndefined
         ]_vars

\* Hydration of a plugin whose source is plugins/alpha: the first location
\* answered with a non-2xx, the second with a JSON array, the third with a
\* JSON object, which is the sub-manifest the walk goes on with.
C33_Witness ==
    /\ pc = "hydrating"
    /\ walk.stage \in {"discover", "string", "array"}
    /\ sourceBasePath(HydratingPlugin) # EmptyText
    /\ walk.sourceConfig = ConfigStrings
    /\ Len(hydrationAnswers) = 3
    /\ hydrationAnswers[1].failed
    /\ hydrationAnswers[2] = [failed |-> FALSE, payload |-> JArray(<<>>)]
    /\ hydrationAnswers[3].payload = ConfigStrings
    /\ hydrationRequests[3].url =
          RawUrl(Seg("acme", ""), Seg("skills", ""),
                 <<Seg("main", ""), Seg("plugins", ""), Seg("alpha", ""),
                   Seg("plugin", ".json")>>)

(***************************************************************************)
(* The claims about the base of the paths of a sub-manifest.               *)
(***************************************************************************)
IsPrefix(s, t) == Len(s) <= Len(t) /\ SubSeq(t, 1, Len(s)) = s

\* The item's path and metadata URL lie under the plugin's source directory.
UnderSourceDirectory(plugin, item) ==
    /\ IsPrefix(sourceBasePath(plugin).parts, item.path.parts)
    /\ IsPrefix(DocumentRepoContext.rawBaseUrl.parts \o sourceBasePath(plugin).parts,
                item.metadataUrl.parts)

\* C34: every item that hydration derived from a relative path (the plugin
\* had no groups of its own, and has groups once hydrated) has its path and
\* its metadata URL under the plugin's declared source directory, whether
\* the category value was a string, an array or an object map.
C34_DerivedPathsLieUnderSource ==
    \A i \in 1..Len(hydratedPlugins) :
       normalized.plugins[i].groups = <<>> =>
          \A item \in ItemsOf(hydratedPlugins[i]) :
             (item.path.defined /\ ~isHttpUrl(item.path)) =>
                UnderSourceDirectory(hydratedPlugins[i], item)

(***************************************************************************)
(* The claims about the candidates of an input that is no repository root. *)
(***************************************************************************)
\* The input is an http(s) URL that candidateMarketplaceUrls does not treat
\* as a GitHub repository: another host, or github.com without owner and
\* repository.
IsPlainHttpInput(u) ==
    /\ u.valid
    /\ u.protocol \in {"http:", "https:"}
    /\ ~(u.hostname \in {"github.com", "www.github.com"} /\ Len(u.parts) >= 2)

\* The path of the input ends in a file extension.
EndsInExtension(u) ==
    u.parts # <<>> /\ ~u.slash /\ u.parts[Len(u.parts)].ext # ""

\* <origin><path>/<rest>
BelowInput(u, rest) ==
    [valid |-> TRUE, protocol |-> u.protocol, hostname |-> u.hostname,
     parts |-> u.parts \o rest, slash |-> FALSE]

\* C35: for an http(s) input that is no GitHub repository URL the literal
\* input is the first candidate; if its path has no file extension (and so
\* does not end in /marketplace.json) exactly two candidates follow,
\* <input>/.claude-plugin/marketplace.json and then
\* <input>/.github/plugin/marketplace.json; otherwise the input is the only
\* candidate.
C35_PlainInputCandidates ==
    (pc # "idle" /\ IsPlainHttpInput(sourceUrl)) =>
        /\ candidates[1] = sourceUrl
        /\ IF ~EndsInExtension(sourceUrl)
           THEN candidates =
                  << sourceUrl,
                     BelowInput(sourceUrl,
                         <<Seg(".claude-plugin", ""), Seg("marketplace", ".json")>>),
                     BelowInput(sourceUrl,
                         <<Seg(".github", ""), Seg("plugin", ""),
                           Seg("marketplace", ".json")>>) >>
           ELSE candidates = <<sourceUrl>>

\* https://example.com/plugins/ has been given: three candidates, the first
\* of which failed, so that the first derived candidate is being probed.
C35_Witness ==
    /\ pc = "probing"
    /\ sourceUrl = Url("https:", "example.com", <<Seg("plugins", "")>>, TRUE)
    /\ Len(candidates) = 3
    /\ Len(issued) = 2

\* The input is https://github.com/<owner>/<repo>/blob/<branch>/<file path>.
IsBlobInput(u) ==
    /\ u.valid
    /\ u.protocol \in {"http:", "https:"}
    /\ u.hostname = "github.com"
    /\ Len(u.parts) >= 5
    /\ u.parts[3] = Seg("blob", "")

\* C36: for a github.com input /<owner>/<repo>/blob/<branch>/<file path>
\* there is exactly one candidate, the raw.githubusercontent.com URL of that
\* owner, repository, branch and file path, and none of the candidates at
\* the default locations.
C36_BlobInputHasOneCandidate ==
    (pc # "idle" /\ IsBlobInput(sourceUrl)) =>
        /\ Len(candidates) = 1
        /\ candidates[1].valid
        /\ candidates[1].protocol = "https:"
        /\ candidates[1].hostname = "raw.githubusercontent.com"
        /\ candidates[1].parts =
              <<sourceUrl.parts[1], sourceUrl.parts[2], sourceUrl.parts[4]>> \o
                 [i \in 1..(Len(sourceUrl.parts) - 4) |-> sourceUrl.parts[i + 4]]
        /\ \A i \in 1..Len(candidates[1].parts) :
              candidates[1].parts[i] \notin {Seg(".claude-plugin", ""), Seg(".github", "")}

\* The blob URL of catalog/marketplace.json on branch dev has been given and
\* its one candidate has been probed.
C36_Witness ==
    /\ pc \in {"fetching", "done"}
    /\ IsBlobInput(sourceUrl)
    /\ sourceUrl.parts[4] = Seg("dev", "")
    /\ Len(issued) = 1
    /\ answers = <<"ok">>


(***************************************************************************)
(* C37                                                                     *)
(***************************************************************************)

\* The fetches getWithRefresh awaits itself and that have not settled.
PendingSyncIn(f, k) ==
    {id \in DOMAIN f : f[id].key = k /\ f[id].kind = "sync" /\ f[id].phase = "pending"}

PendingSync(k) == PendingSyncIn(fetches, k)

\* C37: synchronous fetches are not deduplicated. A getWithRefresh call that
\* finds no readable entry, or that forces, invokes the fetcher once more
\* whatever fetches of the key are still pending, and those stay pending; the
\* in-flight refresh set never holds such a fetch and is not touched when one
\* starts or completes; and every completion writes its value into the cache,
\* so the cache holds the value of the fetch that completed last.
C37_SyncFetchesAreNotDeduplicated ==
    /\ [](\A k \in DOMAIN pendingRefreshes :
            pendingRefreshes[k] \in DOMAIN fetches
                => fetches[pendingRefreshes[k]].kind = "background")
    /\ [][/\ (last'.op = "getWithRefresh" /\ (last'.force \/ ~cacheGet(last'.key).found))
             => /\ invoked' = invoked + 1
                /\ invoked' \in PendingSyncIn(fetches', last'.key)
                /\ PendingSyncIn(fetches, last'.key) \subseteq PendingSyncIn(fetches', last'.key)
                /\ pendingRefreshes' = pendingRefreshes
                /\ (last'.key \in DOMAIN pendingRefreshes') = (last'.key \in DOMAIN pendingRefreshes)
          /\ (last'.op = "resolved" /\ last'.kind = "sync")
             => /\ last'.fetch \in PendingSyncIn(fetches, last'.key)
                /\ last'.key \in DOMAIN memoryCache'
                /\ memoryCache'[last'.key].data = last'.data
                /\ pendingRefreshes' = pendingRefreshes
                /\ invoked' = invoked]_vars

\* Two synchronous fetches of one key have been started while none was
\* registered as a refresh; the first to complete has written its value and
\* the second, still pending, will overwrite it.
C37_Witness ==
    /\ last.op = "resolved" /\ last.kind = "sync"
    /\ invoked = 2
    /\ PendingSync(last.key) # {}
    /\ ~isRefreshing(last.key)
    /\ memoryCache[last.key].data = last.data


(***************************************************************************)
(* C38                                                                     *)
(***************************************************************************)

\* The step before was clear(k) or clearAll().
JustCleared(k) ==
    \/ last.op = "clear" /\ last.key = k
    \/ last.op = "clearAll"

\* C38: no fetch that was in flight when clear(key) or clearAll() ran writes
\* its result into the cache afterwards. Every fetch that is pending in the
\* state a clear leaves behind was in flight when the clear ran, so when such
\* a fetch completes next, its key is still absent from the cache.
C38_ClearedKeyStaysAbsent ==
    [][\A k \in RefreshKeys :
          (JustCleared(k) /\ last'.op = "resolved" /\ last'.key = k
             /\ last'.fetch \in DOMAIN fetches)
          => k \notin DOMAIN memoryCache']_vars


(***************************************************************************)
(* C39                                                                     *)
(***************************************************************************)

PairOf(plugin) == <<plugin.id, plugin.sourceUrl>>

\* The plugin list has a plugin of the (id, sourceUrl) pair.
HasPair(plugins, pair) == \E i \in DOMAIN plugins : PairOf(plugins[i]) = pair

\* The key map holds a plugin of the pair under the pair's key.
HasOwnEntry(map, plugin) ==
    /\ pluginKey(plugin) \in DOMAIN map
    /\ PairOf(map[pluginKey(plugin)]) = PairOf(plugin)

\* C39: aggregation and the plugin key map never merge two plugins whose
\* (id, sourceUrl) pairs differ: of any two fetched plugins that differ in id
\* or in sourceUrl, both pairs are in the result of fetchAllMarketplaces and
\* each has an entry of its own in createPluginKeyMap of the fetched plugins
\* and of the result.
C39_DistinctPairsAreNeverMerged ==
    allPc = "done" =>
        \A j, k \in 1..Len(Fetched("plugins")) :
            PairOf(Fetched("plugins")[j]) # PairOf(Fetched("plugins")[k]) =>
                /\ HasPair(aggregate.plugins, PairOf(Fetched("plugins")[j]))
                /\ HasPair(aggregate.plugins, PairOf(Fetched("plugins")[k]))
                /\ pluginKey(Fetched("plugins")[j]) # pluginKey(Fetched("plugins")[k])
                /\ HasOwnEntry(createPluginKeyMap(Fetched("plugins")), Fetched("plugins")[j])
                /\ HasOwnEntry(createPluginKeyMap(Fetched("plugins")), Fetched("plugins")[k])
                /\ HasOwnEntry(createPluginKeyMap(aggregate.plugins), Fetched("plugins")[j])
                /\ HasOwnEntry(createPluginKeyMap(aggregate.plugins), Fetched("plugins")[k])


(***************************************************************************)
(* C40                                                                     *)
(***************************************************************************)

\* The URLs of the marketplaces the view shows, in order.
ShownUrls == [i \in DOMAIN shown |-> shown[i].url]

\* C40: after a change of the marketplace URLs or a forced refresh the view
\* eventually shows the marketplaces of the URL list current at that change
\* (unless the list is changed again first), also when the change arrives
\* while a load is in progress.
C40_ViewCatchesUpWithSetting ==
    \A us \in TreeUrlLists :
        (treeLast \in {"configuration", "forceRefresh"} /\ marketplaceUrls = us)
            ~> (ShownUrls = us \/ marketplaceUrls # us)

====
